---- MODULE Spec2Model ----
(***************************************************************************)
(* Model of the transaction pool of crates/transaction-pool.               *)
(*                                                                         *)
(* PoolInner (pool/mod.rs) is the orchestrator: it owns `pool`, a TxPool   *)
(* behind one RwLock, and the listener lists.  Its methods are modelled    *)
(* from pool/mod.rs.  TxPool itself (pool/txpool.rs), the sub-pools        *)
(* (pool/pending.rs, pool/parked.rs) and the best-transactions iterator    *)
(* (pool/best.rs) are modelled from the specification, sections 3 and      *)
(* 4.3-4.8, reading each rule literally.                                   *)
(*                                                                         *)
(* Beside the pool the module holds the header stage of crates/stages      *)
(* (stages/headers.rs) with the header checks of crates/interfaces         *)
(* (p2p/headers/downloader.rs, p2p/error.rs), and execute_transactions of  *)
(* crates/revm (processor.rs); each has its own specification.             *)
(***************************************************************************)
EXTENDS Integers, Sequences, FiniteSets, TLC

(***************************************************************************)
(* Bounds of the model.                                                    *)
(***************************************************************************)
MaxNonce == 2
MaxBatch == 4
MaxBalance == 3
MaxOps == 3
MaxListeners == 2
MaxHashes == 2
MaxAddresses == 3
\* TX_LISTENER_BUFFER_SIZE of add_pending_listener (2048 in the code) and of
\* add_transaction_listener (1024 in the code), scaled down
PENDING_LISTENER_BUFFER_SIZE == 0
TX_LISTENER_BUFFER_SIZE == 0

Senders == {1, 2}
\* the sender ids the identifier table can assign: one per outcome of the
\* largest batch
SenderIds == 1..MaxBatch
Nonces == 0..MaxNonce
FeeCaps == {10, 12}
BaseFees == {10, 12}
Costs == {1, 2}
\* the on-chain nonces a validation outcome or a canonical update reports
StateNonces == 0..1
\* the balances a validation outcome or a canonical update reports
Balances == {1, MaxBalance}

(***************************************************************************)
(* PoolConfig: the options the enclosing node supplies at construction.    *)
(***************************************************************************)
max_count == 3
max_bytes == 4
gap_limit == 1
\* replacement_bump, in percent
replacement_bump == 10

(***************************************************************************)
(* A transaction record: the payload fields the pool reads.  The record    *)
(* itself stands for the transaction's bytes and for its hash.             *)
(***************************************************************************)
Transactions ==
    [sender : Senders, nonce : Nonces, fee_cap : FeeCaps, cost : Costs]

\* the injected TransactionOrdering: the score of a transaction is its fee cap
Priority(t) == t.fee_cap

\* TransactionId: the pair (sender_id, nonce)
TransactionId(t) == <<t.sender, t.nonce>>

\* size-in-bytes of the payload: a function of the payload
Size(t) == t.cost

OfSender(S, s) == {t \in S : t.sender = s}

RECURSIVE SumCost(_)
SumCost(S) ==
    IF S = {} THEN 0
    ELSE LET t == CHOOSE x \in S : TRUE IN t.cost + SumCost(S \ {t})

RECURSIVE SumSize(_)
SumSize(S) ==
    IF S = {} THEN 0
    ELSE LET t == CHOOSE x \in S : TRUE IN Size(t) + SumSize(S \ {t})

\* the record of lowest nonce of a non-empty set of one sender's records
LowestNonce(S) == CHOOSE t \in S : \A u \in S : t.nonce <= u.nonce

(***************************************************************************)
(* TxPool: the three sub-pools, the membership map, the stored sender      *)
(* state and the base fee.                                                 *)
(***************************************************************************)
NoSenderState == [state_nonce |-> 0, balance |-> 0]

EmptyPool ==
    [pending |-> {}, basefee |-> {}, queued |-> {}, all |-> {},
     sender_state |-> [s \in SenderIds |-> NoSenderState],
     base_fee |-> 10]

\* every record the sub-pools hold
Held(p) == p.pending \cup p.basefee \cup p.queued

\* a removal that leaves the record in the membership map
RemoveTxKeepMap(p, t) ==
    [p EXCEPT !.pending = @ \ {t}, !.basefee = @ \ {t}, !.queued = @ \ {t}]

\* sub-pool remove(transaction_id), on every sub-pool and the map
RemoveTx(p, t) ==
    [p EXCEPT !.pending = @ \ {t}, !.basefee = @ \ {t}, !.queued = @ \ {t},
              !.all = @ \ {t}]

\* sub-pool insert(record)
InsertInto(p, t, sub) ==
    [p EXCEPT !.pending = IF sub = "Pending" THEN @ \cup {t} ELSE @,
              !.basefee = IF sub = "BaseFee" THEN @ \cup {t} ELSE @,
              !.queued  = IF sub = "Queued"  THEN @ \cup {t} ELSE @,
              !.all = @ \cup {t}]

\* a record moves from the sub-pool it is in to `sub`
MoveTo(p, t, sub) ==
    [p EXCEPT !.pending = IF sub = "Pending" THEN @ \cup {t} ELSE @ \ {t},
              !.basefee = IF sub = "BaseFee" THEN @ \cup {t} ELSE @ \ {t},
              !.queued  = IF sub = "Queued"  THEN @ \cup {t} ELSE @ \ {t}]

(***************************************************************************)
(* Routing of a newly inserted record (section 4.5) with the duplicate     *)
(* policy of section 4.3.                                                  *)
(***************************************************************************)
\* the held record that shares the incoming record's transaction_id, if any
SameId(p, tx) == {t \in p.all : TransactionId(t) = TransactionId(tx)}

\* a replacement policy that accepts any higher priority
BumpedNoFraction(new, old) == Priority(new) > Priority(old)

\* the incoming priority strictly exceeds the old one by replacement_bump
Bumped(new, old) == Priority(new) * 100 > Priority(old) * (100 + replacement_bump)

\* "any nonce in [n, tx.nonce) missing for this sender"
HasGap(p, tx) ==
    LET n == p.sender_state[tx.sender].state_nonce
    IN \E m \in n..(tx.nonce - 1) :
          ~ \E t \in OfSender(p.all, tx.sender) : t.nonce = m

\* cumulative cost of the sender's records with nonces in [n, tx.nonce]
\* already in Pending or BaseFee, plus the incoming
PrefixCost(p, tx) ==
    LET n == p.sender_state[tx.sender].state_nonce
    IN SumCost({t \in OfSender(p.pending \cup p.basefee, tx.sender) :
                   /\ n <= t.nonce
                   /\ t.nonce <= tx.nonce
                   /\ TransactionId(t) # TransactionId(tx)}) + tx.cost

\* rules 5 and 6
RouteByFee(p, tx) == IF tx.fee_cap < p.base_fee THEN "BaseFee" ELSE "Pending"

\* routing that treats an identical duplicate as a replacement attempt
RouteDuplicateAsReplacement(p, tx) ==
    LET st == p.sender_state[tx.sender]
    IN IF tx.nonce < st.state_nonce THEN "NonceTooLow"
       ELSE IF tx.nonce > st.state_nonce + gap_limit THEN "NonceGapTooLarge"
       ELSE IF \E old \in SameId(p, tx) : ~ Bumped(tx, old) THEN "ReplacementUnderpriced"
       ELSE IF HasGap(p, tx) THEN "Queued"
       ELSE IF PrefixCost(p, tx) > st.balance THEN "Queued"
       ELSE RouteByFee(p, tx)

\* rules 1 to 6; the stored sender state is the one the outcome delivered
Route(p, tx) ==
    LET st == p.sender_state[tx.sender]
    IN IF tx.nonce < st.state_nonce THEN "NonceTooLow"
       ELSE IF tx.nonce > st.state_nonce + gap_limit THEN "NonceGapTooLarge"
       ELSE IF tx \in p.all THEN "AlreadyKnown"
       ELSE IF \E old \in SameId(p, tx) : ~ Bumped(tx, old) THEN "ReplacementUnderpriced"
       ELSE IF HasGap(p, tx) THEN "Queued"
       ELSE IF PrefixCost(p, tx) > st.balance THEN "Queued"
       ELSE RouteByFee(p, tx)

SubPools == {"Pending", "BaseFee", "Queued"}

(***************************************************************************)
(* Promotion / demotion cascade of one sender (section 4.6).               *)
(***************************************************************************)
\* the next expected nonce: the end of the run of Pending or BaseFee records
\* that starts at the state nonce
NextExpected(p, s) ==
    LET n == p.sender_state[s].state_nonce
        ready == OfSender(p.pending \cup p.basefee, s)
    IN CHOOSE m \in n..(n + Cardinality(ready)) :
          /\ \A k \in n..(m - 1) : \E t \in ready : t.nonce = k
          /\ ~ \E t \in ready : t.nonce = m

\* Promote Queued -> {BaseFee, Pending}: while the Queued head is the next
\* expected nonce and its prefix is affordable, route it by rules 5 and 6
RECURSIVE PromoteQueued(_, _)
PromoteQueued(p, s) ==
    LET st == p.sender_state[s]
        Q == {t \in OfSender(p.queued, s) : t.nonce >= st.state_nonce}
    IN IF Q = {} THEN p
       ELSE LET head == LowestNonce(Q)
            IN IF head.nonce = NextExpected(p, s) /\ PrefixCost(p, head) <= st.balance
               THEN PromoteQueued(MoveTo(p, head, RouteByFee(p, head)), s)
               ELSE p

\* Promote BaseFee -> Pending: walk the BaseFee head in nonce order, while
\* fee_cap >= base fee
RECURSIVE PromoteBaseFee(_, _)
PromoteBaseFee(p, s) ==
    LET B == OfSender(p.basefee, s)
    IN IF B = {} THEN p
       ELSE LET head == LowestNonce(B)
            IN IF head.fee_cap >= p.base_fee
               THEN PromoteBaseFee(MoveTo(p, head, "Pending"), s)
               ELSE p

RECURSIVE MoveAll(_, _, _)
MoveAll(p, S, sub) ==
    IF S = {} THEN p
    ELSE LET t == CHOOSE x \in S : TRUE IN MoveAll(MoveTo(p, t, sub), S \ {t}, sub)

\* Demote Pending -> BaseFee, on a base-fee increase: the suffix that starts
\* at the first Pending record failing rule 5
DemoteToBaseFee(p, s, old_fee) ==
    LET P == OfSender(p.pending, s)
        failing == {t \in P : t.fee_cap < p.base_fee}
    IN IF p.base_fee > old_fee /\ failing # {}
       THEN MoveAll(p, {t \in P : t.nonce >= LowestNonce(failing).nonce}, "BaseFee")
       ELSE p

\* Demote {Pending, BaseFee} -> Queued, on a balance decrease or a nonce
\* advance: the first record from the state nonce on that has a gap before it
\* or an unaffordable prefix, and all higher
DemoteToQueued(p, s, old) ==
    LET st == p.sender_state[s]
        R == {t \in OfSender(p.pending \cup p.basefee, s) : t.nonce >= st.state_nonce}
        ok(t) == /\ \A k \in st.state_nonce..t.nonce : \E u \in R : u.nonce = k
                 /\ SumCost({u \in R : u.nonce <= t.nonce}) <= st.balance
    IN IF st.balance < old.balance \/ st.state_nonce > old.state_nonce
       THEN MoveAll(p, {t \in R : ~ ok(t)}, "Queued")
       ELSE p

\* the cascade of sender s after a change from sender state `old` and base
\* fee `old_fee`
Cascade(p, s, old, old_fee) ==
    DemoteToQueued(
        DemoteToBaseFee(PromoteBaseFee(PromoteQueued(p, s), s), s, old_fee),
        s, old)

RECURSIVE CascadeAll(_, _, _, _)
CascadeAll(p, S, olds, old_fee) ==
    IF S = {} THEN p
    ELSE LET s == CHOOSE x \in S : TRUE
         IN CascadeAll(Cascade(p, s, olds[s], old_fee), S \ {s}, olds, old_fee)

(***************************************************************************)
(* TxPool operations.                                                      *)
(***************************************************************************)
RECURSIVE RemoveAll(_, _)
RemoveAll(p, S) ==
    IF S = {} THEN p
    ELSE LET t == CHOOSE x \in S : TRUE IN RemoveAll(RemoveTx(p, t), S \ {t})

\* the record routed to sub-pool r displaces the held record of its id, then
\* the cascade of its sender runs; a rejected record returns the error
Routed(p, tx, r, old, old_fee) ==
    IF r \in SubPools
    THEN [pool |-> Cascade(InsertInto(RemoveAll(p, SameId(p, tx)), tx, r),
                           tx.sender, old, old_fee),
          res |-> r, replaced |-> SameId(p, tx)]
    ELSE [pool |-> p, res |-> r, replaced |-> {}]

\* the sender-state cache takes the outcome's state
WithSenderState(p, s, state_nonce, balance) ==
    [p EXCEPT !.sender_state[s] = [state_nonce |-> state_nonce, balance |-> balance]]

\* the routing of tx once the cache holds the outcome's state
RouteCached(p, tx, old, old_fee) == Routed(p, tx, Route(p, tx), old, old_fee)

\* TxPool::add_transaction(tx, balance, state_nonce): update the sender-state
\* cache, route the record, then run the cascade of its sender
TxPoolAddTransaction(p, tx, balance, state_nonce) ==
    RouteCached(WithSenderState(p, tx.sender, state_nonce, balance), tx,
                p.sender_state[tx.sender], p.base_fee)

\* a limit (count or bytes) is exceeded
LimitExceeded(p) == Cardinality(p.all) > max_count \/ SumSize(p.all) > max_bytes

\* the record of lowest (priority, transaction_id) of a non-empty sub-pool
Worst(S) ==
    CHOOSE t \in S : \A u \in S :
        \/ Priority(t) < Priority(u)
        \/ /\ Priority(t) = Priority(u)
           /\ \/ t.sender < u.sender
              \/ t.sender = u.sender /\ t.nonce <= u.nonce

\* victims taken from Pending first, then BaseFee, then Queued
VictimPoolPendingFirst(p) ==
    IF p.pending # {} THEN p.pending
    ELSE IF p.basefee # {} THEN p.basefee
    ELSE p.queued

\* the sub-pool the next victim is taken from: Queued, then BaseFee, then Pending
VictimPool(p) ==
    IF p.queued # {} THEN p.queued
    ELSE IF p.basefee # {} THEN p.basefee
    ELSE p.pending

\* TxPool::discard_worst: evict worst-first until both limits are respected
RECURSIVE TxPoolDiscardWorst(_, _)
TxPoolDiscardWorst(p, removed) ==
    IF ~ LimitExceeded(p) \/ Held(p) = {}
    THEN [pool |-> p, discarded |-> removed]
    ELSE TxPoolDiscardWorst(RemoveTx(p, Worst(VictimPool(p))),
                            removed \cup {Worst(VictimPool(p))})

\* TxPool::update_base_fee: a base-fee change triggers the cascade of every sender
TxPoolUpdateBaseFee(p, fee) ==
    CascadeAll([p EXCEPT !.base_fee = fee], SenderIds, p.sender_state, p.base_fee)

\* a removal that takes every record of the listed records' senders
TxPoolRemoveTransactionsOfSenders(p, hashes) ==
    RemoveAll(p, {t \in p.all : \E h \in hashes \cap p.all : h.sender = t.sender})

\* remove_transactions(hashes): removes by hash, no cascade
TxPoolRemoveTransactions(p, hashes) == RemoveAll(p, hashes \cap p.all)

\* step 2 of on_canonical_state_change: the records below an updated
\* sender's new state nonce
Stale(p, updates) ==
    {t \in p.all : /\ t.sender \in DOMAIN updates
                   /\ t.nonce < updates[t.sender].state_nonce}

\* steps 3 and 4: the stored sender state and the base fee
WithState(p, fee, updates) ==
    [p EXCEPT !.sender_state =
                  [s \in SenderIds |-> IF s \in DOMAIN updates THEN updates[s] ELSE @[s]],
              !.base_fee = fee]

\* the senders step 5 runs the cascade for: the affected senders and, if the
\* base fee changed, the senders whose BaseFee head is now admissible
AffectedSenders(p, mined, updated, old_fee) ==
    updated
    \cup {t.sender : t \in mined}
    \cup IF p.base_fee # old_fee
         THEN {s \in SenderIds :
                 /\ OfSender(p.basefee, s) # {}
                 /\ LowestNonce(OfSender(p.basefee, s)).fee_cap >= p.base_fee}
         ELSE {}

\* steps 5 and 6 on the pool p that steps 1 to 4 left
CascadeAffected(p, mined, updated, olds, old_fee) ==
    TxPoolDiscardWorst(
        CascadeAll(p, AffectedSenders(p, mined, updated, old_fee), olds, old_fee), {})

\* steps 1 and 2
WithoutMinedAndStale(p, mined, updates) ==
    RemoveAll(RemoveAll(p, mined), Stale(RemoveAll(p, mined), updates))

\* on_canonical_state_change(mined_tx_hashes, new_base_fee, updates), steps 1 to 6;
\* `updates` is a function from the updated senders to their new state
TxPoolOnCanonicalStateChange(p, mined, fee, updates) ==
    CascadeAffected(
        WithState(WithoutMinedAndStale(p, mined \cap p.all, updates), fee, updates),
        mined \cap p.all, DOMAIN updates, p.sender_state, p.base_fee)

\* TxPool::len, TxPool::is_empty: the size of the membership map
TxPoolLen(p) == Cardinality(p.all)
TxPoolIsEmpty(p) == p.all = {}

\* TxPool::status: the number of records of each sub-pool
TxPoolStatus(p) ==
    [pending |-> Cardinality(p.pending),
     basefee |-> Cardinality(p.basefee),
     queued |-> Cardinality(p.queued)]

(***************************************************************************)
(* PoolInner (pool/mod.rs).                                                *)
(***************************************************************************)
VARIABLES
    pool,         \* PoolInner.pool: the TxPool behind the RwLock
    identifiers,  \* PoolInner.identifiers: the address of each sender id assigned
    last,         \* the last public call: its arguments and what it returned
    ops,          \* number of public mutating calls made
    best,         \* the best-transactions iterator a block builder holds
    other,        \* the iterator a second block builder holds
    pending_transaction_listener,  \* PoolInner.pending_transaction_listener
    transaction_listener,          \* PoolInner.transaction_listener
    threads,      \* where each calling thread is in its add_transactions
    db,           \* the header tables of the database (stages/headers.rs)
    progress,     \* the stage progress the pipeline keeps for the header stage
    ret,          \* the last call of the header stage and what it returned
    arg,          \* the arguments a function under check is called with
    out           \* what the function returned, or its state while it runs

\* the node outside the transaction pool
rest == <<db, progress, ret, arg, out>>

vars == <<pool, identifiers, last, ops, best, other,
          pending_transaction_listener, transaction_listener, threads, rest>>
listeners == <<pending_transaction_listener, transaction_listener>>

\* TransactionValidationOutcome
\* the errors the validator reports; the pool does not look into them
ValidatorErrors == {"invalid_a", "invalid_b"}

ValidOutcomes ==
    [kind : {"Valid"}, tx : Transactions, balance : Balances,
     state_nonce : StateNonces, err : {"none"}]
InvalidOutcomes ==
    [kind : {"Invalid"},
     tx : {t \in Transactions :
             t.sender = 1 /\ t.nonce = 0 /\ t.cost = 1 /\ t.fee_cap = 10},
     balance : {0}, state_nonce : {0}, err : ValidatorErrors]
Outcomes == ValidOutcomes \cup InvalidOutcomes

\* what add_transaction returns for an outcome it does not add: the error,
\* with no notification
Rejected(p, err) ==
    [pool |-> p, result |-> err, subpool |-> "none", replaced |-> {},
     ready |-> <<>>, events |-> <<>>, new_txs |-> <<>>]

\* the PoolResult ("Ok" or the error) and the sub-pool of the AddedTransaction
\* add_transaction tagging every new-transaction event as Pending
AsPoolResultTaggedPending(a, tx) ==
    IF a.res \in SubPools
    THEN [pool |-> a.pool, result |-> "Ok", subpool |-> a.res, replaced |-> a.replaced,
          ready |-> IF a.res = "Pending" THEN <<tx>> ELSE <<>>,
          events |-> <<[hash |-> tx,
                        event |-> IF a.res = "Pending" THEN "Pending" ELSE "Queued"]>>,
          new_txs |-> <<[transaction |-> tx, subpool |-> "Pending"]>>]
    ELSE Rejected(a.pool, a.res)

\* with the notifications add_transaction makes for an added transaction:
\* on_new_pending_transaction if it is pending, notify_event_listeners
\* (ready or queued), on_new_transaction with the sub-pool tag
AsPoolResult(a, tx) ==
    IF a.res \in SubPools
    THEN [pool |-> a.pool, result |-> "Ok", subpool |-> a.res, replaced |-> a.replaced,
          ready |-> IF a.res = "Pending" THEN <<tx>> ELSE <<>>,
          events |-> <<[hash |-> tx,
                        event |-> IF a.res = "Pending" THEN "Pending" ELSE "Queued"]>>,
          new_txs |-> <<[transaction |-> tx, subpool |-> a.res]>>]
    ELSE Rejected(a.pool, a.res)

\* add_transaction handing the outcome's state nonce and balance to the pool
\* in each other's place
AddTransactionSwapped(p, o) ==
    IF o.kind = "Valid"
    THEN AsPoolResult(TxPoolAddTransaction(p, o.tx, o.state_nonce, o.balance), o.tx)
    ELSE Rejected(p, o.err)

\* add_transaction inserting the transaction of every outcome, Invalid too
AddTransactionAnyOutcome(p, o) ==
    AsPoolResult(TxPoolAddTransaction(p, o.tx, o.balance, o.state_nonce), o.tx)

\* PoolInner::add_transaction
AddTransaction(p, o) ==
    IF o.kind = "Valid"
    THEN AsPoolResult(TxPoolAddTransaction(p, o.tx, o.balance, o.state_nonce), o.tx)
    ELSE Rejected(p, o.err)

\* the results collected so far, with the result of one more add_transaction
Collect(acc, a) ==
    [pool |-> a.pool,
     results |-> Append(acc.results, a.result),
     subpools |-> Append(acc.subpools, a.subpool),
     replaced |-> acc.replaced \cup a.replaced,
     ready |-> acc.ready \o a.ready,
     events |-> acc.events \o a.events,
     new_txs |-> acc.new_txs \o a.new_txs]

\* add_transactions before its first add_transaction
NoneAdded(p) ==
    [pool |-> p, results |-> <<>>, subpools |-> <<>>, replaced |-> {},
     ready |-> <<>>, events |-> <<>>, new_txs |-> <<>>]

\* the inserts of add_transactions, one add_transaction per outcome in order
RECURSIVE AddEach(_, _)
AddEach(acc, os) ==
    IF os = <<>> THEN acc
    ELSE AddEach(Collect(acc, AddTransaction(acc.pool, os[1])), Tail(os))

\* PoolInner::discard_worst
DiscardWorst(p) == TxPoolDiscardWorst(p, {})

\* add_transactions rewriting every Ok result once anything was discarded
RewrittenEveryOk(os, added, d) ==
    [pool |-> d.pool,
     results |-> [i \in 1..Len(os) |->
                     IF added.results[i] = "Ok" /\ d.discarded # {}
                     THEN "DiscardedOnInsert"
                     ELSE added.results[i]],
     subpools |-> added.subpools,
     replaced |-> added.replaced,
     ready |-> added.ready, events |-> added.events, new_txs |-> added.new_txs,
     discarded |-> d.discarded]

\* the results of add_transactions, those of the discarded rewritten
Rewritten(os, added, d) ==
    [pool |-> d.pool,
     results |-> [i \in 1..Len(os) |->
                     IF added.results[i] = "Ok" /\ os[i].tx \in d.discarded
                     THEN "DiscardedOnInsert"
                     ELSE added.results[i]],
     subpools |-> added.subpools,
     replaced |-> added.replaced,
     ready |-> added.ready, events |-> added.events, new_txs |-> added.new_txs,
     discarded |-> d.discarded]

\* add_transactions that never enforces the size limits
EnforcedNever(os, added) ==
    Rewritten(os, added, [pool |-> added.pool, discarded |-> {}])

\* the size limits are enforced if at least one transaction was added
Enforced(os, added) ==
    Rewritten(os, added,
              IF \E i \in 1..Len(os) : added.results[i] = "Ok"
              THEN DiscardWorst(added.pool)
              ELSE [pool |-> added.pool, discarded |-> {}])

\* PoolInner::add_transactions
AddTransactionsResult(p, os) ==
    Enforced(os, AddEach(NoneAdded(p), os))

(***************************************************************************)
(* Best-transactions iterator (section 4.8).                               *)
(***************************************************************************)
NoIterator ==
    [active |-> FALSE, snapshot |-> {}, cursor |-> [s \in SenderIds |-> 0],
     yielded |-> <<>>, invalid |-> {}]

\* the iterator over a snapshot of Pending: the cursor of a sender starts at
\* the sender's lowest snapshot nonce
Snapshot(pending) ==
    [active |-> TRUE, snapshot |-> pending,
     cursor |-> [s \in SenderIds |->
                   IF OfSender(pending, s) = {} THEN 0
                   ELSE LowestNonce(OfSender(pending, s)).nonce],
     yielded |-> <<>>, invalid |-> {}]

Range(seq) == {seq[i] : i \in 1..Len(seq)}

\* a mark_invalid that takes every remaining record out of the yieldable set
SuppressedEverySender(b, t) == b.invalid # {}

\* mark_invalid takes the higher nonces of the sender out of the yieldable set
Suppressed(b, t) == \E i \in b.invalid : i.sender = t.sender /\ t.nonce > i.nonce

\* an iterator that yields by priority alone
BestEligibleAny(b) ==
    {t \in b.snapshot \ Range(b.yielded) : ~ Suppressed(b, t)}

\* the records next() may yield: not yet yielded, at the cursor of their
\* sender (the others stay buffered), and not suppressed
BestEligible(b) ==
    {t \in b.snapshot \ Range(b.yielded) :
        t.nonce = b.cursor[t.sender] /\ ~ Suppressed(b, t)}

\* the tail of the score index: the lowest (priority, transaction_id)
BestFromTail(E) ==
    CHOOSE t \in E : \A u \in E :
        \/ Priority(t) < Priority(u)
        \/ /\ Priority(t) = Priority(u)
           /\ \/ t.sender < u.sender
              \/ t.sender = u.sender /\ t.nonce <= u.nonce

\* the head of the score index, descending by (priority, transaction_id)
Best(E) ==
    CHOOSE t \in E : \A u \in E :
        \/ Priority(t) > Priority(u)
        \/ /\ Priority(t) = Priority(u)
           /\ \/ t.sender > u.sender
              \/ t.sender = u.sender /\ t.nonce >= u.nonce

\* the iterator after next() yielded t: the cursor of its sender advances
Yield(b, t) ==
    [b EXCEPT !.yielded = Append(@, t), !.cursor[t.sender] = t.nonce + 1]

(***************************************************************************)
(* Listener channels.  A listener is the Sender half of a bounded channel  *)
(* kept in a list of PoolInner; queue holds what its Receiver has not yet  *)
(* taken and open is false once the Receiver was dropped.                  *)
(***************************************************************************)
\* a channel of buffer size n takes n messages plus one for its one Sender
Capacity(buffer) == buffer + 1

NewChannel(id) == [id |-> id, queue |-> <<>>, open |-> TRUE]

\* Sender::try_send on listener l
TrySend(l, buffer) ==
    IF ~ l.open THEN "Disconnected"
    ELSE IF Len(l.queue) >= Capacity(buffer) THEN "Full"
    ELSE "Ok"

\* a listener is dropped from the list on every failed send
RetainedOnlyOk(l, buffer) == TrySend(l, buffer) = "Ok"

\* the closure of retain_mut: a listener stays unless its channel is closed
Retained(l, buffer) == TrySend(l, buffer) # "Disconnected"

\* listener l after the try_send of msg
Sent(l, msg, buffer) ==
    IF TrySend(l, buffer) = "Ok" THEN [l EXCEPT !.queue = Append(@, msg)] ELSE l

\* retain_mut over the listener list with one message
Notify(ls, msg, buffer) ==
    LET kept == SelectSeq(ls, LAMBDA l : Retained(l, buffer))
    IN [i \in 1..Len(kept) |-> Sent(kept[i], msg, buffer)]

\* the notifications of one call, in the order they were made
RECURSIVE NotifyAll(_, _, _)
NotifyAll(ls, msgs, buffer) ==
    IF msgs = <<>> THEN ls
    ELSE NotifyAll(Notify(ls, Head(msgs), buffer), Tail(msgs), buffer)

ListenerIds == 1..MaxListeners
IdsOf(ls) == {ls[i].id : i \in 1..Len(ls)}

\* the list after add_pending_listener / add_transaction_listener
Pushed(ls) == Append(ls, NewChannel(CHOOSE id \in ListenerIds : id \notin IdsOf(ls)))

\* the Receiver of listener i takes the next message
Received(ls, i) == [ls EXCEPT ![i].queue = Tail(@)]

\* the Receiver of listener i is dropped
Dropped(ls, i) == [ls EXCEPT ![i].queue = <<>>, ![i].open = FALSE]

\* the threads that call into the pool; a thread that is in no call
Threads == {1, 2}
Idle == [pc |-> "idle"]

NoCall ==
    [op |-> "new", args |-> <<>>, results |-> <<>>, subpools |-> <<>>,
     replaced |-> {}, discarded |-> {},
     ready |-> <<>>, events |-> <<>>, new_txs |-> <<>>]

(***************************************************************************)
(* The header stage (crates/stages/src/stages/headers.rs) and the header   *)
(* checks of crates/interfaces/src/p2p.                                    *)
(***************************************************************************)
MaxResponse == 3

\* the variables of the transaction pool
mempool == <<pool, identifiers, last, ops, best, other,
             pending_transaction_listener, transaction_listener, threads>>

\* H256::zero()
ZeroHash == 0

\* a sealed header: a header with the hash of its content
SealedHeader(number, hash, parent_hash, difficulty) ==
    [number |-> number, hash |-> hash, parent_hash |-> parent_hash,
     difficulty |-> difficulty]

\* the headers of the model: the genesis block, a chain A1-A2-A3 on it, a
\* second chain B1-B2-B3 on it, and X3, which names A1 as its parent though
\* its number is 3
Genesis == SealedHeader(0, 1, ZeroHash, 1)
A1 == SealedHeader(1, 11, 1, 1)
A2 == SealedHeader(2, 21, 11, 2)
A3 == SealedHeader(3, 31, 21, 1)
B1 == SealedHeader(1, 12, 1, 2)
B2 == SealedHeader(2, 22, 12, 1)
B3 == SealedHeader(3, 32, 22, 3)
X3 == SealedHeader(3, 33, 11, 1)
HeaderUniverse == {Genesis, A1, A2, A3, B1, B2, B3, X3}

\* SealedHeader::unseal: the header without its hash
Unseal(sealed) ==
    [number |-> sealed.number, parent_hash |-> sealed.parent_hash,
     difficulty |-> sealed.difficulty]

\* Header::seal: the hash is computed from the content of the header
Seal(header) ==
    CHOOSE sealed \in HeaderUniverse : Unseal(sealed) = header

\* SealedHeader::new: the header with the hash it is given
SealedHeaderNew(header, hash) ==
    SealedHeader(header.number, hash, header.parent_hash, header.difficulty)

\* the responses a downloader can hand to the stage
Responses ==
    UNION {[1..n -> HeaderUniverse] : n \in 0..MaxResponse}

\* a database table: a function from its keys to its values
Put(table, key, value) ==
    [k \in DOMAIN table \cup {key} |-> IF k = key THEN value ELSE table[k]]

Delete(table, keys) ==
    [k \in DOMAIN table \ keys |-> table[k]]

\* the order of the keys of a table: block numbers, and (number, hash) pairs
NumLess(a, b) == a < b

NumHashLess(a, b) == a[1] < b[1] \/ (a[1] = b[1] /\ a[2] < b[2])

\* the order of the keys of the table named `name`
KeyLess(name, a, b) ==
    IF name = "CanonicalHeaders" THEN NumLess(a, b) ELSE NumHashLess(a, b)

\* Cursor::last on a table of (number, hash) keys
LastKey(table) ==
    CHOOSE k \in DOMAIN table : \A j \in DOMAIN table : j = k \/ NumHashLess(j, k)

\* Cursor::append: a put with the APPEND flag, which the database refuses
\* unless the key lies behind every key of the table
CursorAppend(name, table, key, value) ==
    IF \A j \in DOMAIN table : KeyLess(name, j, key)
    THEN [ok |-> TRUE, table |-> Put(table, key, value)]
    ELSE [ok |-> FALSE, table |-> table]

\* the four header tables after the genesis block was written
GenesisDb ==
    [HeaderNumbers    |-> (Genesis.hash :> Genesis.number),
     CanonicalHeaders |-> (Genesis.number :> Genesis.hash),
     Headers          |-> (<<Genesis.number, Genesis.hash>> :> Unseal(Genesis)),
     HeaderTD         |-> (<<Genesis.number, Genesis.hash>> :> Genesis.difficulty)]

\* a parent check that compares the hashes only
EnsureParentByHash(header, parent) ==
    IF ~(parent.hash = header.parent_hash)
    THEN "MismatchedHeaders"
    ELSE "Ok"

\* downloader.rs, ensure_parent
EnsureParent(header, parent) ==
    IF ~(parent.hash = header.parent_hash /\ parent.number + 1 = header.number)
    THEN "MismatchedHeaders"
    ELSE "Ok"

\* validate_header_response: the response is walked from its last header
\* down; the header before the first is the local head
RECURSIVE EnsureParents(_, _, _)
EnsureParents(headers, i, head) ==
    IF i = 0 THEN "Ok"
    ELSE IF EnsureParent(headers[i], IF i > 1 THEN headers[i - 1] ELSE head) # "Ok"
         THEN "Download"
         ELSE EnsureParents(headers, i - 1, head)

ValidateHeaderResponse(headers, head, forkchoice) ==
    IF Len(headers) < 2 THEN "Download"
    ELSE IF headers[Len(headers)].hash # forkchoice THEN "Download"
    ELSE EnsureParents(headers, Len(headers), head)

\* write_headers: the total difficulty starts at the last entry of HeaderTD
RECURSIVE WriteEach(_, _, _, _, _)
WriteEach(tables, headers, i, td, latest) ==
    IF i > Len(headers) THEN [ok |-> TRUE, db |-> tables, latest |-> latest]
    ELSE LET header == headers[i] IN
         IF header.number = 0
         THEN WriteEach(tables, headers, i + 1, td, latest)
         ELSE LET key == <<header.number, header.hash>>
                  sum == td + header.difficulty
                  numbered == [tables EXCEPT !.HeaderNumbers =
                                   Put(@, header.hash, header.number)]
                  h == CursorAppend("Headers", numbered.Headers, key, Unseal(header))
                  c == CursorAppend("CanonicalHeaders", numbered.CanonicalHeaders,
                                    header.number, header.hash)
                  t == CursorAppend("HeaderTD", numbered.HeaderTD, key, sum)
              IN  IF ~h.ok THEN [ok |-> FALSE, db |-> numbered, latest |-> latest]
                  ELSE IF ~c.ok
                  THEN [ok |-> FALSE, db |-> [numbered EXCEPT !.Headers = h.table],
                        latest |-> latest]
                  ELSE IF ~t.ok
                  THEN [ok |-> FALSE,
                        db |-> [numbered EXCEPT !.Headers = h.table,
                                                !.CanonicalHeaders = c.table],
                        latest |-> latest]
                  ELSE WriteEach([numbered EXCEPT !.Headers = h.table,
                                                  !.CanonicalHeaders = c.table,
                                                  !.HeaderTD = t.table],
                                 headers, i + 1, sum, header.number)

\* a write_headers whose total difficulty starts at zero
WriteHeadersFromZero(tables, headers) ==
    WriteEach(tables, headers, 1, 0, -1)

WriteHeaders(tables, headers) ==
    WriteEach(tables, headers, 1, tables.HeaderTD[LastKey(tables.HeaderTD)], -1)

\* what a call of the stage returns
ExecOutput(stage_progress, reached_tip, done) ==
    [kind |-> "Ok", stage_progress |-> stage_progress,
     reached_tip |-> reached_tip, done |-> done, block |-> 0]

\* an Err of the stage; `block` is the block of StageError::Validation
StageError(kind, block) ==
    [kind |-> kind, stage_progress |-> 0, reached_tip |-> FALSE, done |-> FALSE,
     block |-> block]

\* the results of Downloader::download
DownloadKinds ==
    {"Ok", "Timeout", "HeaderValidation", "InvalidTip", "EmptyResponse", "RequestError"}

\* a stage that reports a timed-out download as done
DownloadFailedTimeoutDone(stage_progress, error) ==
    IF error = "Timeout" THEN ExecOutput(stage_progress, TRUE, TRUE)
    ELSE IF error = "HeaderValidation" THEN StageError("Validation", stage_progress)
    ELSE StageError("Download", 0)

\* a stage that reports every failed download as a download error
DownloadFailedAsDownload(stage_progress, error) ==
    IF error = "Timeout" THEN ExecOutput(stage_progress, FALSE, FALSE)
    ELSE StageError("Download", 0)

\* execute, the Err arm of the match on the download
DownloadFailed(stage_progress, error) ==
    IF error = "Timeout" THEN ExecOutput(stage_progress, FALSE, FALSE)
    ELSE IF error = "HeaderValidation" THEN StageError("Validation", stage_progress)
    ELSE StageError("Download", 0)

\* HeaderStage::execute on the tables `tables`: the tables it leaves, what it
\* returns, and whether it called the downloader
HeaderStageExecute(tables, stage_progress, forkchoice, download, headers) ==
    IF stage_progress \notin DOMAIN tables.CanonicalHeaders
    THEN <<tables, StageError("DatabaseIntegrity", 0), FALSE>>
    ELSE LET last_hash == tables.CanonicalHeaders[stage_progress]
             key == <<stage_progress, last_hash>>
         IN
         IF key \notin DOMAIN tables.HeaderTD \/ key \notin DOMAIN tables.Headers
         THEN <<tables, StageError("DatabaseIntegrity", 0), FALSE>>
         ELSE LET head == SealedHeaderNew(tables.Headers[key], last_hash) IN
         IF /\ forkchoice \in DOMAIN tables.HeaderNumbers
            /\ tables.HeaderNumbers[forkchoice] < head.number
         THEN <<tables, ExecOutput(stage_progress, TRUE, TRUE), FALSE>>
         ELSE IF download # "Ok"
         THEN <<tables, DownloadFailed(stage_progress, download), TRUE>>
         ELSE IF ValidateHeaderResponse(headers, head, forkchoice) # "Ok"
         THEN <<tables, StageError("Download", 0), TRUE>>
         ELSE LET written == WriteHeaders(tables, headers) IN
              IF ~written.ok
              THEN <<written.db, StageError("Database", 0), TRUE>>
              ELSE <<written.db,
                     ExecOutput(IF written.latest = -1 THEN stage_progress
                                ELSE written.latest, TRUE, TRUE), TRUE>>

\* StageDB::unwind_table_by_walker::<CanonicalHeaders, HeaderNumbers>: the
\* hashes of the canonical entries from `start` on leave HeaderNumbers
UnwindTableByWalker(tables, start) ==
    [tables EXCEPT !.HeaderNumbers =
        Delete(@, {tables.CanonicalHeaders[n] :
                      n \in {m \in DOMAIN tables.CanonicalHeaders : m >= start}})]

\* StageDB::unwind_table_by_num: the entries above block `block` leave
UnwindTableByNum(table, block) ==
    Delete(table, {k \in DOMAIN table : k > block})

\* StageDB::unwind_table_by_num_hash: the same for (number, hash) keys
UnwindTableByNumHash(table, block) ==
    Delete(table, {k \in DOMAIN table : k[1] > block})

\* an unwind that leaves HeaderTD as it is
HeaderStageUnwindKeepTD(tables, unwind_to) ==
    LET walked == UnwindTableByWalker(tables, unwind_to + 1) IN
    [walked EXCEPT !.CanonicalHeaders = UnwindTableByNum(@, unwind_to),
                   !.Headers = UnwindTableByNumHash(@, unwind_to)]

HeaderStageUnwind(tables, unwind_to) ==
    LET walked == UnwindTableByWalker(tables, unwind_to + 1) IN
    [walked EXCEPT !.CanonicalHeaders = UnwindTableByNum(@, unwind_to),
                   !.Headers = UnwindTableByNumHash(@, unwind_to),
                   !.HeaderTD = UnwindTableByNumHash(@, unwind_to)]

NoStageCall ==
    [op |-> "none", input |-> 0, forkchoice |-> ZeroHash, download |-> "none",
     output |-> ExecOutput(0, FALSE, FALSE)]

\* the state of the node outside the pool after construction
InitStage ==
    /\ db = GenesisDb
    /\ progress = 0
    /\ ret = NoStageCall

\* no function call under check
NoArg == [fn |-> "none"]
NotCalled == [called |-> FALSE]

InitRest ==
    /\ InitStage
    /\ arg = NoArg
    /\ out = NotCalled

InitMempool ==
    /\ pool = EmptyPool
    /\ identifiers = <<>>
    /\ last = NoCall
    /\ ops = 0
    /\ best = NoIterator
    /\ other = NoIterator
    /\ pending_transaction_listener = <<>>
    /\ transaction_listener = <<>>
    /\ threads = [th \in Threads |-> Idle]

Init ==
    /\ InitMempool
    /\ InitRest

\* HeaderStage::execute, called by the pipeline with the progress it keeps
\* for the stage; the consensus engine names a head other than the local one
Execute(forkchoice, download, headers) ==
    /\ forkchoice # ZeroHash
    /\ progress \in DOMAIN db.CanonicalHeaders => forkchoice # db.CanonicalHeaders[progress]
    /\ \E r \in {HeaderStageExecute(db, progress, forkchoice, download, headers)} :
          /\ db' = r[1]
          /\ ret' = [op |-> "execute", input |-> progress, forkchoice |-> forkchoice,
                     download |-> IF r[3] THEN download ELSE "none",
                     output |-> r[2]]
          /\ progress' = IF r[2].kind = "Ok" THEN r[2].stage_progress ELSE progress
    /\ UNCHANGED <<mempool, arg, out>>

\* HeaderStage::unwind
Unwind(unwind_to) ==
    /\ db' = HeaderStageUnwind(db, unwind_to)
    /\ ret' = [op |-> "unwind", input |-> unwind_to, forkchoice |-> ZeroHash,
               download |-> "none", output |-> ExecOutput(unwind_to, FALSE, FALSE)]
    /\ progress' = unwind_to
    /\ UNCHANGED <<mempool, arg, out>>

Forkchoices == {h.hash : h \in HeaderUniverse}

NextHeaders ==
    \/ \E fc \in Forkchoices : \E headers \in Responses : Execute(fc, "Ok", headers)
    \/ \E fc \in Forkchoices : \E e \in DownloadKinds \ {"Ok"} : Execute(fc, e, <<>>)
    \/ \E u \in 0..progress : Unwind(u)

SpecHeaders == Init /\ [][NextHeaders]_vars

\* the tables after the headers of `chain` were written on the genesis block
ChainDb(chain) == WriteHeaders(GenesisDb, chain).db

\* the stage before one execute: the tables hold a chain up to the stage
\* progress, and the consensus engine and the downloader have their answers
InitResponse ==
    /\ InitMempool
    /\ \E chain \in {<<>>, <<A1>>, <<A1, A2>>, <<B1>>} :
          arg \in [fn : {"execute"}, tables : {ChainDb(chain)},
                   stage_progress : {Len(chain)},
                   forkchoice : Forkchoices, headers : Responses]
    /\ db = arg.tables
    /\ progress = arg.stage_progress
    /\ ret = NoStageCall
    /\ out = NotCalled

\* execute with the response the downloader holds
ExecuteResponse ==
    /\ arg.fn = "execute"
    /\ ret.op = "none"
    /\ Execute(arg.forkchoice, "Ok", arg.headers)

SpecResponse == InitResponse /\ [][ExecuteResponse]_vars

\* validate_header_download; `consensus` is what Consensus::validate_header
\* answers for the pair when it is asked
ValidateHeaderDownload(consensus, header, parent) ==
    IF EnsureParent(header, parent) # "Ok"
    THEN [result |-> "MismatchedHeaders", hash |-> header.hash,
          consensus_called |-> FALSE]
    ELSE IF consensus # "Ok"
    THEN [result |-> "HeaderValidation", hash |-> parent.hash,
          consensus_called |-> TRUE]
    ELSE [result |-> "Ok", hash |-> ZeroHash, consensus_called |-> TRUE]

InitDownload ==
    /\ InitMempool
    /\ InitStage
    /\ arg \in [fn : {"validate_header_download"}, consensus : {"Ok", "Err"},
                 header : HeaderUniverse, parent : HeaderUniverse]
    /\ out = NotCalled

CallValidateHeaderDownload ==
    /\ arg.fn = "validate_header_download"
    /\ ~out.called
    /\ out' = [called |-> TRUE,
               value |-> ValidateHeaderDownload(arg.consensus, arg.header, arg.parent)]
    /\ UNCHANGED <<mempool, db, progress, ret, arg>>

SpecDownload == InitDownload /\ [][CallValidateHeaderDownload]_vars

(***************************************************************************)
(* revm/src/processor.rs: EVMProcessor::execute_transactions.              *)
(***************************************************************************)
MaxGas == 3
MaxTxs == 3

\* u64 arithmetic, which wraps in a release build; the width is scaled down
\* to 30 bits
WrapU64(x) == x % 1073741824

\* a block: the gas limit of its header and the gas limits of the
\* transactions of its body; `senders` is what recover_senders answers
Blocks ==
    [fn : {"execute_transactions"},
     gas_limit : 0..MaxGas,
     body : UNION {[1..n -> 0..MaxGas] : n \in 0..MaxTxs},
     senders : {"Ok", "SenderRecoveryError"}]

InitProcessor ==
    /\ InitMempool
    /\ InitStage
    /\ arg \in Blocks
    /\ out = NotCalled

\* where execute_transactions is: the next transaction of the loop, the
\* locals cumulative_gas_used and receipts (each receipt by its
\* cumulative_gas_used), the transactions handed to transact, whether a
\* subtraction wrapped, and what was returned
Running(i, cumulative_gas_used, receipts, transacted, underflow, result, total) ==
    [called |-> TRUE, i |-> i, cumulative_gas_used |-> cumulative_gas_used,
     receipts |-> receipts, transacted |-> transacted, underflow |-> underflow,
     result |-> result, total |-> total]

\* execute_transactions up to the loop
ExecuteTransactions ==
    /\ arg.fn = "execute_transactions"
    /\ ~out.called
    /\ out' = IF arg.body = <<>>
              THEN Running(1, 0, <<>>, 0, FALSE, "Ok", 0)
              ELSE IF arg.senders # "Ok"
              THEN Running(1, 0, <<>>, 0, FALSE, "SenderRecoveryError", 0)
              ELSE Running(1, 0, <<>>, 0, FALSE, "running", 0)
    /\ UNCHANGED <<mempool, db, progress, ret, arg>>

\* a loop body that hands every transaction to transact
LoopBodyUnchecked ==
    /\ out.called
    /\ out.result = "running"
    /\ out.i <= Len(arg.body)
    /\ \E gas_used \in 0..arg.body[out.i] :
          LET cumulative_gas_used == WrapU64(out.cumulative_gas_used + gas_used) IN
          out' = [out EXCEPT !.i = @ + 1,
                             !.transacted = @ + 1,
                             !.underflow = @ \/ out.cumulative_gas_used > arg.gas_limit,
                             !.cumulative_gas_used = cumulative_gas_used,
                             !.receipts = Append(@, cumulative_gas_used)]
    /\ UNCHANGED <<mempool, db, progress, ret, arg>>

\* one iteration of the loop over the body: the gas check, transact, which
\* fails or uses some gas up to the gas limit of the transaction, and the
\* receipt
LoopBody ==
    /\ out.called
    /\ out.result = "running"
    /\ out.i <= Len(arg.body)
    /\ LET block_available_gas == WrapU64(arg.gas_limit - out.cumulative_gas_used)
           underflow == out.underflow \/ out.cumulative_gas_used > arg.gas_limit
       IN  IF arg.body[out.i] > block_available_gas
           THEN out' = [out EXCEPT !.underflow = underflow,
                           !.result = "TransactionGasLimitMoreThanAvailableBlockGas"]
           ELSE \/ out' = [out EXCEPT !.underflow = underflow,
                                      !.transacted = @ + 1,
                                      !.result = "EVM"]
                \/ \E gas_used \in 0..arg.body[out.i] :
                      LET cumulative_gas_used ==
                              WrapU64(out.cumulative_gas_used + gas_used) IN
                      out' = [out EXCEPT !.i = @ + 1,
                                         !.transacted = @ + 1,
                                         !.underflow = underflow,
                                         !.cumulative_gas_used = cumulative_gas_used,
                                         !.receipts = Append(@, cumulative_gas_used)]
    /\ UNCHANGED <<mempool, db, progress, ret, arg>>

\* Ok((receipts, cumulative_gas_used)) after the loop
ReturnReceipts ==
    /\ out.called
    /\ out.result = "running"
    /\ out.i > Len(arg.body)
    /\ out' = [out EXCEPT !.result = "Ok", !.total = out.cumulative_gas_used]
    /\ UNCHANGED <<mempool, db, progress, ret, arg>>

NextProcessor ==
    \/ ExecuteTransactions
    \/ LoopBody
    \/ ReturnReceipts

SpecProcessor == InitProcessor /\ [][NextProcessor]_vars

(***************************************************************************)
(* p2p/error.rs: EthResponseValidator for a headers response.              *)
(***************************************************************************)
MaxBlock == 2

\* HeadersRequest { start, limit }: start is a block number or a hash
HeadersRequests ==
    [start : [kind : {"Number"}, value : 0..MaxBlock]
                 \cup [kind : {"Hash"}, value : {A1.hash, B1.hash}],
     limit : 0..MaxResponse]

\* PeerRequestResult<Vec<Header>>: Ok(headers), each header with its number,
\* or Err
HeadersResults ==
    [kind : {"Ok"},
     headers : UNION {[1..n -> [number : 0..MaxBlock]] : n \in 0..MaxResponse}]
        \cup [kind : {"Err"}, headers : {<<>>}]

\* a validator that compares the limit with a response of any length
IsLikelyBadAnyLength(result, request) ==
    IF result.kind = "Ok"
    THEN LET headers == result.headers
             request_length == Len(headers)
         IN  IF request.limit # request_length THEN TRUE
             ELSE IF request.start.kind = "Number"
             THEN IF Len(headers) > 0
                  THEN request.start.value # headers[1].number
                  ELSE FALSE
             ELSE FALSE
    ELSE TRUE

\* is_likely_bad_headers_response
IsLikelyBadHeadersResponse(result, request) ==
    IF result.kind = "Ok"
    THEN LET headers == result.headers
             request_length == Len(headers)
         IN  IF request_length <= 1 /\ request.limit # request_length THEN TRUE
             ELSE IF request.start.kind = "Number"
             THEN IF Len(headers) > 0
                  THEN request.start.value # headers[1].number
                  ELSE FALSE
             ELSE FALSE
    ELSE TRUE

InitBadResponse ==
    /\ InitMempool
    /\ InitStage
    /\ arg \in [fn : {"is_likely_bad_headers_response"},
                 result : HeadersResults, request : HeadersRequests]
    /\ out = NotCalled

CallIsLikelyBadHeadersResponse ==
    /\ arg.fn = "is_likely_bad_headers_response"
    /\ ~out.called
    /\ out' = [called |-> TRUE,
               value |-> IsLikelyBadHeadersResponse(arg.result, arg.request)]
    /\ UNCHANGED <<mempool, db, progress, ret, arg>>

SpecBadResponse == InitBadResponse /\ [][CallIsLikelyBadHeadersResponse]_vars

\* a table that gives every call a fresh id
SenderIdAlwaysNew(ids, addr) ==
    [identifiers |-> Append(ids, addr), id |-> Len(ids) + 1]

\* SenderIdentifiers::sender_id_or_create: the id of a known address, or the
\* next id for a new one; the table holds the address of id i at index i
SenderIdOrCreate(ids, addr) ==
    IF \E i \in 1..Len(ids) : ids[i] = addr
    THEN [identifiers |-> ids, id |-> CHOOSE i \in 1..Len(ids) : ids[i] = addr]
    ELSE [identifiers |-> Append(ids, addr), id |-> Len(ids) + 1]

\* SenderIdentifiers::address_of
AddressOf(ids, id) == ids[id]

\* PoolInner::get_sender_id, under the write lock of the table
GetSenderId(ids, addr) == SenderIdOrCreate(ids, addr)

\* the table after the get_sender_id of every Valid outcome of os, in order
RECURSIVE Interned(_, _)
Interned(ids, os) ==
    IF os = <<>> THEN ids
    ELSE Interned(IF os[1].kind = "Valid"
                  THEN GetSenderId(ids, os[1].tx.sender).identifiers
                  ELSE ids,
                  Tail(os))

\* the records carry sender ids: senders are numbered in the order in which
\* get_sender_id first sees them, so that a sender's id is its number
Assignable(os) ==
    \A i \in 1..Len(os) :
        os[i].kind = "Valid" =>
            GetSenderId(Interned(identifiers, SubSeq(os, 1, i - 1)),
                        os[i].tx.sender).id = os[i].tx.sender

Batches == {<<o>> : o \in Outcomes}

AddTransactions(os) ==
    /\ ops < MaxOps
    /\ Assignable(os)
    /\ \E r \in {AddTransactionsResult(pool, os)} :
          /\ pool' = r.pool
          /\ last' = [op |-> "add_transactions",
                      args |-> os, results |-> r.results, subpools |-> r.subpools,
                      replaced |-> r.replaced, discarded |-> r.discarded,
                      ready |-> r.ready, events |-> r.events, new_txs |-> r.new_txs]
          /\ pending_transaction_listener' =
                NotifyAll(pending_transaction_listener, r.ready,
                          PENDING_LISTENER_BUFFER_SIZE)
          /\ transaction_listener' =
                NotifyAll(transaction_listener, r.new_txs, TX_LISTENER_BUFFER_SIZE)
    /\ identifiers' = Interned(identifiers, os)
    /\ ops' = ops + 1
    /\ UNCHANGED <<best, other, threads, rest>>

\* PoolInner::update_base_fee
UpdateBaseFee(fee) ==
    /\ ops < MaxOps
    /\ pool' = TxPoolUpdateBaseFee(pool, fee)
    /\ last' = [NoCall EXCEPT !.op = "update_base_fee"]
    /\ ops' = ops + 1
    /\ UNCHANGED <<identifiers, best, other, listeners, threads, rest>>

\* PoolInner::discard_worst, called directly
DiscardWorstCall ==
    /\ ops < MaxOps
    /\ \E d \in {DiscardWorst(pool)} :
          /\ pool' = d.pool
          /\ last' = [NoCall EXCEPT !.op = "discard_worst", !.discarded = d.discarded]
    /\ ops' = ops + 1
    /\ UNCHANGED <<identifiers, best, other, listeners, threads, rest>>

\* remove_transactions(hashes)
RemoveTransactions(hashes) ==
    /\ ops < MaxOps
    /\ pool' = TxPoolRemoveTransactions(pool, hashes)
    /\ last' = [NoCall EXCEPT !.op = "remove_transactions", !.args = <<hashes>>]
    /\ ops' = ops + 1
    /\ UNCHANGED <<identifiers, best, other, listeners, threads, rest>>

\* on_canonical_state_change(mined_tx_hashes, new_base_fee, updates)
OnCanonicalStateChange(mined, fee, updates) ==
    /\ ops < MaxOps
    /\ \E d \in {TxPoolOnCanonicalStateChange(pool, mined, fee, updates)} :
          /\ pool' = d.pool
          /\ last' = [NoCall EXCEPT !.op = "on_canonical_state_change",
                                    !.args = <<mined>>,
                                    !.discarded = d.discarded]
    /\ ops' = ops + 1
    /\ UNCHANGED <<identifiers, best, other, listeners, threads, rest>>

\* a ready_transactions whose iterator also walks the BaseFee sub-pool
ReadyTransactionsWithBaseFee ==
    /\ ~ best.active
    /\ best' = Snapshot(pool.pending \cup pool.basefee)
    /\ UNCHANGED <<pool, identifiers, last, ops, listeners, threads, other, rest>>

\* PoolInner::ready_transactions: a new iterator over the Pending snapshot
ReadyTransactions ==
    /\ ~ best.active
    /\ best' = Snapshot(pool.pending)
    /\ UNCHANGED <<pool, identifiers, last, ops, listeners, threads, other, rest>>

\* next() on the iterator yields the best eligible record, if there is one
BestNext ==
    /\ best.active
    /\ BestEligible(best) # {}
    /\ best' = Yield(best, Best(BestEligible(best)))
    /\ UNCHANGED <<pool, identifiers, last, ops, listeners, threads, other, rest>>

\* mark_invalid(hash) of a yielded transaction
MarkInvalid(t) ==
    /\ best.active
    /\ t \in Range(best.yielded) \ best.invalid
    /\ best' = [best EXCEPT !.invalid = @ \cup {t}]
    /\ UNCHANGED <<pool, identifiers, last, ops, listeners, threads, other, rest>>

\* PoolInner::ready_transactions called by the second block builder
OtherReadyTransactions ==
    /\ ~ other.active
    /\ other' = Snapshot(pool.pending)
    /\ UNCHANGED <<pool, identifiers, last, ops, best, listeners, threads, rest>>

\* next() on the second builder's iterator
OtherNext ==
    /\ other.active
    /\ BestEligible(other) # {}
    /\ other' = Yield(other, Best(BestEligible(other)))
    /\ UNCHANGED <<pool, identifiers, last, ops, best, listeners, threads, rest>>

\* PoolInner::add_pending_listener
AddPendingListener ==
    /\ Len(pending_transaction_listener) < MaxListeners
    /\ pending_transaction_listener' = Pushed(pending_transaction_listener)
    /\ UNCHANGED <<pool, identifiers, last, ops, best, other, transaction_listener, threads, rest>>

\* PoolInner::add_transaction_listener
AddTransactionListener ==
    /\ Len(transaction_listener) < MaxListeners
    /\ transaction_listener' = Pushed(transaction_listener)
    /\ UNCHANGED <<pool, identifiers, last, ops, best, other,
                   pending_transaction_listener, threads, rest>>

\* the holder of a pending Receiver takes a hash from it
ReceivePending(i) ==
    /\ pending_transaction_listener[i].queue # <<>>
    /\ pending_transaction_listener' = Received(pending_transaction_listener, i)
    /\ UNCHANGED <<pool, identifiers, last, ops, best, other, transaction_listener, threads, rest>>

\* the holder of a new-transaction Receiver takes an event from it
ReceiveTransaction(i) ==
    /\ transaction_listener[i].queue # <<>>
    /\ transaction_listener' = Received(transaction_listener, i)
    /\ UNCHANGED <<pool, identifiers, last, ops, best, other,
                   pending_transaction_listener, threads, rest>>

\* the holder of a pending Receiver drops it
DropPendingReceiver(i) ==
    /\ pending_transaction_listener[i].open
    /\ pending_transaction_listener' = Dropped(pending_transaction_listener, i)
    /\ UNCHANGED <<pool, identifiers, last, ops, best, other, transaction_listener, threads, rest>>

\* the holder of a new-transaction Receiver drops it
DropTransactionReceiver(i) ==
    /\ transaction_listener[i].open
    /\ transaction_listener' = Dropped(transaction_listener, i)
    /\ UNCHANGED <<pool, identifiers, last, ops, best, other,
                   pending_transaction_listener, threads, rest>>

SenderStates == [state_nonce : StateNonces, balance : Balances]

\* the per-sender updates of one canonical change: none, or one known sender's
Updates ==
    {<<>>} \cup {[x \in {s} |-> st] : s \in 1..Len(identifiers), st \in SenderStates}

\* the hash sets a caller passes: one held record or none
HashSets == {{}} \cup {{t} : t \in pool.all}

Next ==
    \/ \E os \in Batches : AddTransactions(os)
    \/ \E fee \in BaseFees : UpdateBaseFee(fee)
    \/ DiscardWorstCall
    \/ \E hs \in HashSets : RemoveTransactions(hs)
    \/ \E hs \in HashSets, fee \in BaseFees, up \in Updates :
          OnCanonicalStateChange(hs, fee, up)

Spec == Init /\ [][Next]_vars

(***************************************************************************)
(* The pool under a block builder: inserts of funded transactions and      *)
(* removals, with one best-transactions iterator.                          *)
(***************************************************************************)
BestOutcomes ==
    {o \in ValidOutcomes :
        o.balance = MaxBalance /\ o.state_nonce = 0 /\ o.tx.cost = 1}

NextBest ==
    \/ \E o \in BestOutcomes : AddTransactions(<<o>>)
    \/ \E hs \in HashSets : RemoveTransactions(hs)
    \/ ReadyTransactions
    \/ BestNext
    \/ \E t \in Range(best.yielded) : MarkInvalid(t)

SpecBest == Init /\ [][NextBest]_vars

(***************************************************************************)
(* The pool of the iterator scenario: sender 1 at state nonce 5 with       *)
(* transactions of nonce 5 (priority 10) and 6 (priority 100), sender 2 at *)
(* state nonce 2 with one of nonce 2 (priority 50); inserts, removals and  *)
(* one best-transactions iterator.                                         *)
(***************************************************************************)
ScenarioTransactions ==
    {[sender |-> 1, nonce |-> 5, fee_cap |-> 10, cost |-> 1],
     [sender |-> 1, nonce |-> 6, fee_cap |-> 100, cost |-> 1],
     [sender |-> 2, nonce |-> 2, fee_cap |-> 50, cost |-> 1],
     [sender |-> 2, nonce |-> 3, fee_cap |-> 20, cost |-> 1]}

ScenarioOutcomes ==
    {[kind |-> "Valid", tx |-> t, balance |-> MaxBalance,
      state_nonce |-> IF t.sender = 1 THEN 5 ELSE 2, err |-> "none"] :
        t \in ScenarioTransactions}

NextScenario ==
    \/ \E o \in ScenarioOutcomes : AddTransactions(<<o>>)
    \/ \E hs \in HashSets : RemoveTransactions(hs)
    \/ ReadyTransactions
    \/ BestNext
    \/ \E t \in Range(best.yielded) : MarkInvalid(t)
    \/ OtherReadyTransactions
    \/ OtherNext

SpecScenario == Init /\ [][NextScenario]_vars

(***************************************************************************)
(* The pool changing under a block builder's iterator: inserts, removals,  *)
(* base-fee updates and canonical state changes interleaved with the       *)
(* creation of the iterator and its next() calls.                          *)
(***************************************************************************)
NextSnapshot ==
    \/ \E o \in BestOutcomes : AddTransactions(<<o>>)
    \/ \E hs \in HashSets : RemoveTransactions(hs)
    \/ \E fee \in BaseFees : UpdateBaseFee(fee)
    \/ \E hs \in HashSets, fee \in BaseFees, up \in Updates :
          OnCanonicalStateChange(hs, fee, up)
    \/ ReadyTransactions
    \/ BestNext

SpecSnapshot == Init /\ [][NextSnapshot]_vars

(***************************************************************************)
(* Removals by hash: inserts of funded transactions, base-fee updates, and *)
(* remove_transactions with up to MaxHashes hashes, held or not.           *)
(***************************************************************************)
RemoveSets ==
    {hs \in SUBSET {o.tx : o \in BestOutcomes} : Cardinality(hs) <= MaxHashes}

NextRemove ==
    \/ \E o \in BestOutcomes : AddTransactions(<<o>>)
    \/ \E fee \in BaseFees : UpdateBaseFee(fee)
    \/ \E hs \in RemoveSets : RemoveTransactions(hs)

SpecRemove == Init /\ [][NextRemove]_vars

(***************************************************************************)
(* The sender-id table under concurrent callers: get_sender_id calls of    *)
(* the threads in any order, and inserts, some of which the pool rejects.  *)
(***************************************************************************)
Addresses == 1..MaxAddresses

\* PoolInner::get_sender_id called by thread th
GetSenderIdCall(th, addr) ==
    /\ ops < MaxOps
    /\ \E r \in {GetSenderId(identifiers, addr)} :
          /\ identifiers' = r.identifiers
          /\ last' = [NoCall EXCEPT !.op = "get_sender_id",
                                    !.args = <<th, addr>>,
                                    !.results = <<r.id>>]
    /\ ops' = ops + 1
    /\ UNCHANGED <<pool, best, other, listeners, threads, rest>>

\* funded and stale inserts of nonce 0
IdentifierOutcomes ==
    {o \in ValidOutcomes :
        /\ o.balance = MaxBalance
        /\ o.tx.cost = 1
        /\ o.tx.fee_cap = 10
        /\ o.tx.nonce = 0}

NextIdentifiers ==
    \/ \E th \in Threads, addr \in Addresses : GetSenderIdCall(th, addr)
    \/ \E o \in IdentifierOutcomes : AddTransactions(<<o>>)

SpecIdentifiers == Init /\ [][NextIdentifiers]_vars

(***************************************************************************)
(* Resubmission: inserts and removals, and resubmit of any set of the      *)
(* records inserted so far.                                                *)
(***************************************************************************)
\* PoolInner::resubmit: the body is unimplemented!(), which panics before it
\* looks at its argument or takes a lock
Resubmit(transactions) ==
    /\ ops < MaxOps
    /\ last' = [NoCall EXCEPT !.op = "resubmit",
                              !.args = <<transactions>>,
                              !.results = <<"panic">>]
    /\ ops' = ops + 1
    /\ UNCHANGED <<pool, identifiers, best, other, listeners, threads, rest>>

NextResubmit ==
    \/ \E o \in BestOutcomes : AddTransactions(<<o>>)
    \/ \E hs \in HashSets : RemoveTransactions(hs)
    \/ \E hs \in HashSets : Resubmit(hs)

SpecResubmit == Init /\ [][NextResubmit]_vars

(***************************************************************************)
(* The pool with listeners: inserts of funded transactions and of invalid  *)
(* ones, base-fee updates, and the holders of the Receivers.               *)
(***************************************************************************)
ListenerOutcomes ==
    {o \in ValidOutcomes :
        o.balance = MaxBalance /\ o.state_nonce = 0 /\ o.tx.cost = 1 /\ o.tx.nonce <= 1}
    \cup InvalidOutcomes

NextListeners ==
    \/ \E o \in ListenerOutcomes : AddTransactions(<<o>>)
    \/ \E fee \in BaseFees : UpdateBaseFee(fee)
    \/ AddPendingListener
    \/ AddTransactionListener
    \/ \E i \in 1..Len(pending_transaction_listener) : ReceivePending(i)
    \/ \E i \in 1..Len(transaction_listener) : ReceiveTransaction(i)
    \/ \E i \in 1..Len(pending_transaction_listener) : DropPendingReceiver(i)
    \/ \E i \in 1..Len(transaction_listener) : DropTransactionReceiver(i)

SpecListeners == Init /\ [][NextListeners]_vars

(***************************************************************************)
(* The pool under batches: an add_transactions of up to four outcomes to   *)
(* an empty pool, outcome i of sender i or Invalid, with base-fee updates  *)
(* before and after it.                                                    *)
(***************************************************************************)
BatchFeeCaps == {10, 20, 30, 40}

\* the outcomes at position i of a batch: a funded transaction of sender i
\* (the first two senders also with a nonce gap), or an invalid one
BatchOutcomes(i) ==
    [kind : {"Valid"},
     tx : [sender : {i}, nonce : IF i <= 2 THEN {0, 1} ELSE {0},
           fee_cap : BatchFeeCaps, cost : Costs],
     balance : {MaxBalance}, state_nonce : {0}, err : {"none"}]
    \cup {o \in InvalidOutcomes : o.err = "invalid_a"}

RECURSIVE BatchesOf(_)
BatchesOf(n) ==
    IF n = 0 THEN {<<>>}
    ELSE {Append(os, o) : os \in BatchesOf(n - 1), o \in BatchOutcomes(n)}

NextBatch ==
    \/ /\ pool.all = {}
       /\ identifiers = <<>>
       /\ last.op # "add_transactions"
       /\ ops <= 1
       /\ \E n \in 1..MaxBatch : \E os \in BatchesOf(n) : AddTransactions(os)
    \/ \E fee \in BaseFees : UpdateBaseFee(fee)

SpecBatch == Init /\ [][NextBatch]_vars

(***************************************************************************)
(* The pool under two threads.  add_transactions takes the write lock of   *)
(* the pool once in every add_transaction and once more in discard_worst,  *)
(* so a call is a sequence of steps: Begin, one Insert per outcome, then   *)
(* EnforceAndReturn.  Readers take the read lock between any two steps.    *)
(***************************************************************************)
\* thread th is in add_transactions(os) and has made no insert yet;
\* evicted is history: the transactions this call inserted that a size
\* enforcement of any thread has evicted since
Calling(os) ==
    [pc |-> "insert", os |-> os, added |-> NoneAdded(EmptyPool), evicted |-> {}]

\* the transactions the call of thread record t has inserted so far
Inserted(t) ==
    {t.os[i].tx : i \in {k \in 1..Len(t.added.results) : t.added.results[k] = "Ok"}}

\* the thread records after an enforcement discarded the set d: every call
\* in progress that inserted one of them has had it evicted
NoteEvicted(ts, d) ==
    [u \in Threads |->
        IF ts[u].pc = "idle" THEN ts[u]
        ELSE [ts[u] EXCEPT !.evicted = @ \cup (d \cap Inserted(ts[u]))]]

\* add_transactions is entered by thread th
Begin(th, os) ==
    /\ ops < MaxOps
    /\ threads[th].pc = "idle"
    /\ Assignable(os)
    /\ threads' = [threads EXCEPT ![th] = Calling(os)]
    /\ ops' = ops + 1
    /\ UNCHANGED <<pool, identifiers, last, best, other, listeners, rest>>

\* the next add_transaction of the call of thread th, under the write lock
Insert(th) ==
    /\ threads[th].pc = "insert"
    /\ \E o \in {threads[th].os[Len(threads[th].added.results) + 1]} :
          /\ Assignable(<<o>>)
          /\ \E a \in {AddTransaction(pool, o)} :
                /\ pool' = a.pool
                /\ threads' =
                      [threads EXCEPT
                          ![th].added = [Collect(@, a) EXCEPT !.pool = EmptyPool],
                          ![th].pc = IF Len(threads[th].added.results) + 1
                                           = Len(threads[th].os)
                                     THEN "enforce" ELSE "insert"]
                /\ pending_transaction_listener' =
                      NotifyAll(pending_transaction_listener, a.ready,
                                PENDING_LISTENER_BUFFER_SIZE)
                /\ transaction_listener' =
                      NotifyAll(transaction_listener, a.new_txs, TX_LISTENER_BUFFER_SIZE)
          /\ identifiers' = Interned(identifiers, <<o>>)
    /\ UNCHANGED <<last, ops, best, other, rest>>

\* the end of the call of thread th: discard_worst under its own write lock
\* if an insert succeeded, the rewrite of the results, and the return
EnforceAndReturn(th) ==
    /\ threads[th].pc = "enforce"
    /\ \E r \in {Enforced(threads[th].os, [threads[th].added EXCEPT !.pool = pool])} :
          /\ pool' = r.pool
          /\ last' = [op |-> "add_transactions",
                      args |-> threads[th].os, results |-> r.results,
                      subpools |-> r.subpools,
                      replaced |-> r.replaced, discarded |-> r.discarded,
                      ready |-> r.ready, events |-> r.events, new_txs |-> r.new_txs]
          /\ threads' = [NoteEvicted(threads, r.discarded) EXCEPT ![th] = Idle]
    /\ UNCHANGED <<identifiers, ops, best, other, listeners, rest>>

\* a len that counts the Pending sub-pool only
LenOfPending ==
    /\ last.op # "len"
    /\ last' = [NoCall EXCEPT !.op = "len", !.results = <<Cardinality(pool.pending)>>]
    /\ UNCHANGED <<pool, identifiers, ops, best, other, listeners, threads, rest>>

\* PoolInner::len, under the read lock
LenCall ==
    /\ last.op # "len"
    /\ last' = [NoCall EXCEPT !.op = "len", !.results = <<TxPoolLen(pool)>>]
    /\ UNCHANGED <<pool, identifiers, ops, best, other, listeners, threads, rest>>

\* funded transactions, of the first sender at fee cap 10 and of the second
\* at fee cap 12
ThreadOutcomes ==
    {o \in ValidOutcomes :
        /\ o.balance = MaxBalance /\ o.state_nonce = 0
        /\ o.tx.nonce <= 1 /\ o.tx.cost = 1
        /\ o.tx.fee_cap = IF o.tx.sender = 1 THEN 10 ELSE 12}

\* the batches a thread passes: one outcome or two
ThreadBatches ==
    {<<o>> : o \in ThreadOutcomes}
    \cup {<<o1, o2>> : o1 \in ThreadOutcomes, o2 \in ThreadOutcomes}

NextThreads ==
    \/ \E th \in Threads, os \in ThreadBatches : Begin(th, os)
    \/ \E th \in Threads : Insert(th)
    \/ \E th \in Threads : EnforceAndReturn(th)
    \/ LenCall

SpecThreads == Init /\ [][NextThreads]_vars

(***************************************************************************)
(* The readers of the pool's size: status, len and is_empty between        *)
(* inserts, removals, evictions, base-fee updates and canonical changes.   *)
(***************************************************************************)
\* PoolInner::status, under the read lock
StatusCall ==
    /\ last.op # "status"
    /\ last' = [NoCall EXCEPT !.op = "status", !.results = <<TxPoolStatus(pool)>>]
    /\ UNCHANGED <<pool, identifiers, ops, best, other, listeners, threads, rest>>

\* PoolInner::is_empty, under the read lock
IsEmptyCall ==
    /\ last.op # "is_empty"
    /\ last' = [NoCall EXCEPT !.op = "is_empty", !.results = <<TxPoolIsEmpty(pool)>>]
    /\ UNCHANGED <<pool, identifiers, ops, best, other, listeners, threads, rest>>

NextStatus ==
    \/ \E o \in BestOutcomes : AddTransactions(<<o>>)
    \/ \E fee \in BaseFees : UpdateBaseFee(fee)
    \/ DiscardWorstCall
    \/ \E hs \in HashSets : RemoveTransactions(hs)
    \/ \E hs \in HashSets, fee \in BaseFees, up \in Updates :
          OnCanonicalStateChange(hs, fee, up)
    \/ StatusCall
    \/ LenCall
    \/ IsEmptyCall

SpecStatus == Init /\ [][NextStatus]_vars

(***************************************************************************)
(* The pool under funded senders whose state does not change: inserts,     *)
(* removals and base-fee updates.                                          *)
(***************************************************************************)
FundedOutcomes ==
    {o \in ValidOutcomes : o.balance = MaxBalance /\ o.state_nonce = 0}

NextFunded ==
    \/ \E o \in FundedOutcomes : AddTransactions(<<o>>)
    \/ \E fee \in BaseFees : UpdateBaseFee(fee)
    \/ \E hs \in HashSets : RemoveTransactions(hs)

SpecFunded == Init /\ [][NextFunded]_vars

(***************************************************************************)
(* The pool under resubmission of one sender's transactions at fee caps    *)
(* around the replacement bump.                                            *)
(***************************************************************************)
BumpFeeCaps == {10, 11, 12}

ReplaceOutcomes ==
    [kind : {"Valid"},
     tx : [sender : {1}, nonce : {0, 1}, fee_cap : BumpFeeCaps, cost : Costs],
     balance : {MaxBalance}, state_nonce : StateNonces]

NextReplace ==
    \/ \E o \in ReplaceOutcomes : AddTransactions(<<o>>)
    \/ \E fee \in BaseFees : UpdateBaseFee(fee)

SpecReplace == Init /\ [][NextReplace]_vars

(***************************************************************************)
(* Properties.                                                             *)
(***************************************************************************)
SubPoolOf(p, sub) ==
    IF sub = "Pending" THEN p.pending
    ELSE IF sub = "BaseFee" THEN p.basefee
    ELSE p.queued

\* the last call was add_transactions of one Valid outcome
SingleValidAdd(l) ==
    /\ l.op = "add_transactions"
    /\ Len(l.args) = 1
    /\ l.args[1].kind = "Valid"

\* C1: after every public mutating operation, every record the pool holds is
\* in exactly one of Pending, BaseFee and Queued: none is in two sub-pools,
\* and none that the membership map holds is in no sub-pool.
C1_ExactlyOneSubPool ==
    \A t \in pool.all \cup Held(pool) :
        /\ t \in pool.all
        /\ Cardinality({sub \in SubPools : t \in SubPoolOf(pool, sub)}) = 1

\* a base-fee update demoted one record and left another in Pending
C1_Witness ==
    /\ last.op = "update_base_fee"
    /\ pool.pending # {}
    /\ pool.basefee # {}
    /\ C1_ExactlyOneSubPool

\* the Pending nonces of every sender with a Pending record are
\* state_nonce, ..., state_nonce + k - 1
PendingContiguous(p) ==
    \A s \in Senders :
        LET N == {t.nonce : t \in OfSender(p.pending, s)}
            n == p.sender_state[s].state_nonce
        IN N # {} => N = n..(n + Cardinality(N) - 1)

\* C2: after every public mutating operation, the Pending nonces of every
\* sender with a Pending transaction are exactly state_nonce .. state_nonce+k-1
\* for some k >= 1, also after remove_transactions and after an eviction.
C2_PendingContiguity == PendingContiguous(pool)

\* C3: after every public mutating operation, the cost of every sender's
\* Pending records sums to at most the sender's stored balance.
C3_PendingAffordable ==
    \A s \in Senders :
        SumCost(OfSender(pool.pending, s)) <= pool.sender_state[s].balance

\* C4: after every public mutating operation, every Pending record has a
\* fee cap of at least the current base fee.
C4_PendingFeeCap == \A t \in pool.pending : t.fee_cap >= pool.base_fee

\* the record is nonce-contiguous from its sender's state nonce
Contiguous(p, t) ==
    LET n == p.sender_state[t.sender].state_nonce
    IN /\ t.nonce >= n
       /\ \A k \in n..t.nonce : \E u \in OfSender(p.all, t.sender) : u.nonce = k

\* the records of the sender from its state nonce up to the record are affordable
Affordable(p, t) ==
    LET st == p.sender_state[t.sender]
    IN SumCost({u \in OfSender(p.all, t.sender) :
                   st.state_nonce <= u.nonce /\ u.nonce <= t.nonce}) <= st.balance

\* a nonce between the state nonce and the record is missing
GapBefore(p, t) ==
    \E k \in p.sender_state[t.sender].state_nonce..(t.nonce - 1) :
        ~ \E u \in OfSender(p.all, t.sender) : u.nonce = k

\* C5: after every public mutating operation, BaseFee holds exactly the
\* records that are nonce-contiguous from the state nonce and affordable but
\* whose fee cap is below the current base fee.
C5_BaseFeeMembership ==
    \A t \in pool.all :
        t \in pool.basefee
            <=> (Contiguous(pool, t) /\ Affordable(pool, t) /\ t.fee_cap < pool.base_fee)

\* C6: after every public mutating operation, Queued holds exactly the records
\* that have a nonce gap from the state nonce or an unaffordable prefix.
C6_QueuedMembership ==
    \A t \in pool.all :
        t \in pool.queued <=> (GapBefore(pool, t) \/ ~ Affordable(pool, t))

Predecessors(b, t) ==
    {u \in OfSender(b.snapshot, t.sender) :
        /\ u.nonce < t.nonce
        /\ \A v \in OfSender(b.snapshot, t.sender) : v.nonce < t.nonce => v.nonce <= u.nonce}

\* C8: in every prefix of the iterator's output, a transaction is yielded
\* only after the snapshot's transaction of the same sender with the next
\* lower nonce, and one sender's transactions are yielded in nonce order.
C8_NonceOrder ==
    \A i \in 1..Len(best.yielded) :
        /\ \A u \in Predecessors(best, best.yielded[i]) :
              \E j \in 1..(i - 1) : best.yielded[j] = u
        /\ \A j \in 1..(i - 1) :
              best.yielded[j].sender = best.yielded[i].sender
                  => best.yielded[j].nonce < best.yielded[i].nonce

\* a sender's higher-priority transaction was yielded after its predecessor,
\* in an output that also has another sender's transaction
C8_Witness ==
    \E i, j, k \in 1..Len(best.yielded) :
        /\ i < k
        /\ best.yielded[i].sender = best.yielded[k].sender
        /\ best.yielded[j].sender # best.yielded[k].sender
        /\ Priority(best.yielded[k]) > Priority(best.yielded[i])

\* the reference decision for tx, on the pool p before the call, with the
\* outcome's state nonce n and balance B
Reference(p, tx, n, B) ==
    LET held == OfSender(p.all, tx.sender)
        ready == OfSender(p.pending \cup p.basefee, tx.sender)
        prefix_cost == SumCost({t \in ready : n <= t.nonce /\ t.nonce <= tx.nonce}) + tx.cost
    IN IF tx.nonce < n THEN "NonceTooLow"
       ELSE IF tx.nonce > n + gap_limit THEN "NonceGapTooLarge"
       ELSE IF \E m \in n..(tx.nonce - 1) : \A t \in held : t.nonce # m THEN "Queued"
       ELSE IF prefix_cost > B THEN "Queued"
       ELSE IF tx.fee_cap < p.base_fee THEN "BaseFee"
       ELSE "Pending"

\* what the call decided: the sub-pool of the added transaction, or the error
Decided(l) ==
    IF l.subpools[1] \in SubPools THEN l.subpools[1] ELSE l.results[1]

\* the call's decision is the reference decision
AsReference(p, l) ==
    Decided(l) = Reference(p, l.args[1].tx, l.args[1].state_nonce, l.args[1].balance)

ExceedsByBump(new, old) ==
    100 * (Priority(new) - Priority(old)) > replacement_bump * Priority(old)

\* the held record that has the id of tx
OldOf(p, tx) == CHOOSE old \in SameId(p, tx) : TRUE

\* the outcome of a same-id insert as the claim states it
ReplacedIffBumped(p, q, l, tx, old) ==
    /\ IF ExceedsByBump(tx, old)
       THEN l.results[1] = "Ok" /\ tx \in q.all /\ old \notin q.all
       ELSE l.results[1] = "ReplacementUnderpriced" /\ old \in q.all
    /\ Cardinality(SameId(q, tx)) = 1

\* C10 as stated: a same-id insert replaces the old record iff its priority
\* exceeds the old by the bump, else fails with ReplacementUnderpriced and
\* keeps the old; one record has the id afterwards.
C10_Original ==
    [][(SingleValidAdd(last') /\ SameId(pool, last'.args[1].tx) # {})
          => ReplacedIffBumped(pool, pool', last', last'.args[1].tx,
                               OldOf(pool, last'.args[1].tx))]_vars

\* the insert passes the nonce rules and is not a byte-identical duplicate
ReachesReplacement(p, o) ==
    /\ SameId(p, o.tx) # {}
    /\ o.tx \notin p.all
    /\ o.state_nonce <= o.tx.nonce
    /\ o.tx.nonce <= o.state_nonce + gap_limit

\* the outcome of a same-id insert, the size enforcement of the call allowed for
ReplacedIffBumpedUnlessEvicted(q, l, tx, old) ==
    /\ IF ExceedsByBump(tx, old)
       THEN /\ l.results[1] \in {"Ok", "DiscardedOnInsert"}
            /\ old \notin q.all
            /\ tx \in q.all \cup l.discarded
            /\ l.replaced = {old}
       ELSE /\ l.results[1] = "ReplacementUnderpriced"
            /\ old \in q.all
            /\ tx \notin q.all
    /\ Cardinality(SameId(q, tx)) = IF tx \in l.discarded THEN 0 ELSE 1

\* C10: a same-id insert that passes the nonce rules and is not byte-identical
\* to the held record replaces it iff its priority exceeds the old by more
\* than the bump, else fails with ReplacementUnderpriced and keeps the old;
\* one record has the id afterwards unless the call's enforcement evicted it.
C10_Replacement ==
    [][(SingleValidAdd(last') /\ ReachesReplacement(pool, last'.args[1]))
          => ReplacedIffBumpedUnlessEvicted(pool', last', last'.args[1].tx,
                                            OldOf(pool, last'.args[1].tx))]_vars

\* a resubmission at exactly the bump was rejected and the old record kept
C10_Witness ==
    /\ SingleValidAdd(last)
    /\ last.results = <<"ReplacementUnderpriced">>
    /\ last.args[1].tx.fee_cap = 11
    /\ \E old \in SameId(pool, last.args[1].tx) : old.fee_cap = 10

(***************************************************************************)
(* Error paths, batches and listeners.                                     *)
(***************************************************************************)
\* the step is an add_transactions call of the one outcome l.args[1]
SingleAdd(l) ==
    /\ ops' = ops + 1
    /\ l.op = "add_transactions"
    /\ Len(l.args) = 1

\* the call made no notification on any of the three kinds of listeners
NothingSent(l) ==
    /\ l.ready = <<>>
    /\ l.new_txs = <<>>
    /\ l.events = <<>>
    /\ UNCHANGED listeners

\* C11: for an outcome Invalid(tx, err) add_transactions returns the
\* validator's error unchanged, stores no record, changes no sub-pool and
\* sends nothing on the pending, new-transaction or per-hash channels.
C11_InvalidForwarded ==
    [][(SingleAdd(last') /\ last'.args[1].kind = "Invalid")
          => /\ last'.results = <<last'.args[1].err>>
             /\ pool' = pool
             /\ NothingSent(last')]_vars

\* an Invalid outcome was refused by a pool that holds records and has a
\* listener of each kind with room in its channel
C11_Witness ==
    /\ last.op = "add_transactions"
    /\ last.args[1].kind = "Invalid"
    /\ last.results = <<"invalid_b">>
    /\ pool.all # {}
    /\ last.args[1].tx \notin pool.all
    /\ \E i \in 1..Len(pending_transaction_listener) :
          TrySend(pending_transaction_listener[i], PENDING_LISTENER_BUFFER_SIZE) = "Ok"
    /\ \E i \in 1..Len(transaction_listener) :
          TrySend(transaction_listener[i], TX_LISTENER_BUFFER_SIZE) = "Ok"

\* the invariants I1..I8 of a pool state (I9 is about the iterator, which an
\* add does not touch)
InvariantsHold(p) ==
    /\ \A t, u \in p.all : TransactionId(t) = TransactionId(u) => t = u
    /\ \A t \in p.all \cup Held(p) :
          /\ t \in p.all
          /\ Cardinality({sub \in SubPools : t \in SubPoolOf(p, sub)}) = 1
    /\ PendingContiguous(p)
    /\ \A s \in Senders : SumCost(OfSender(p.pending, s)) <= p.sender_state[s].balance
    /\ \A t \in p.pending : t.fee_cap >= p.base_fee
    /\ \A t \in p.all :
          t \in p.basefee
             <=> (Contiguous(p, t) /\ Affordable(p, t) /\ t.fee_cap < p.base_fee)
    /\ \A t \in p.all : t \in p.queued <=> (GapBefore(p, t) \/ ~ Affordable(p, t))
    /\ ~ LimitExceeded(p)

RejectedByPool == {"NonceTooLow", "NonceGapTooLarge", "ReplacementUnderpriced"}

\* C12: an add_transaction of a Valid outcome that fails with NonceTooLow,
\* NonceGapTooLarge or ReplacementUnderpriced, made on a state that satisfies
\* the invariants, leaves Pending, BaseFee and Queued as they were, sends no
\* listener event and leaves a state that satisfies the invariants.
C12_RejectedKeepsInvariants ==
    [][(/\ SingleAdd(last')
        /\ last'.args[1].kind = "Valid"
        /\ last'.results[1] \in RejectedByPool
        /\ InvariantsHold(pool))
          => /\ pool'.pending = pool.pending
             /\ pool'.basefee = pool.basefee
             /\ pool'.queued = pool.queued
             /\ pool'.all = pool.all
             /\ NothingSent(last')
             /\ InvariantsHold(pool')]_vars

\* the part of C12 that holds of every rejected add: the sub-pools are as
\* they were and no listener is notified
C12_RejectedKeepsSubPools ==
    [][(/\ SingleAdd(last')
        /\ last'.args[1].kind = "Valid"
        /\ last'.results[1] \in RejectedByPool)
          => /\ pool'.pending = pool.pending
             /\ pool'.basefee = pool.basefee
             /\ pool'.queued = pool.queued
             /\ pool'.all = pool.all
             /\ NothingSent(last')]_vars

\* the step is an add_transactions call
BatchAdd(l) ==
    /\ ops' = ops + 1
    /\ l.op = "add_transactions"

\* what the call with outcomes os returned (l) and left (q), against its
\* inserts alone (mid): one result per outcome, Ok rewritten exactly for the
\* evicted, one enforcement after the inserts if one of them succeeded
OneResultEach(os, mid, l, q) ==
    /\ Len(l.results) = Len(os)
    /\ \A i \in 1..Len(os) :
          l.results[i] = IF mid.results[i] = "Ok" /\ os[i].tx \in l.discarded
                         THEN "DiscardedOnInsert"
                         ELSE mid.results[i]
    /\ \A i \in 1..Len(os) :
          os[i].kind = "Invalid" => l.results[i] = os[i].err
    /\ l.discarded = mid.pool.all \ q.all
    /\ q.all \subseteq mid.pool.all
    /\ IF \E i \in 1..Len(os) : mid.results[i] = "Ok"
       THEN q = TxPoolDiscardWorst(mid.pool, {}).pool
       ELSE q = mid.pool

\* C13: add_transactions returns one result per outcome in input order; the
\* size enforcement runs once, after all inserts, and only if an insert
\* succeeded; an Ok is rewritten to DiscardedOnInsert exactly when its
\* transaction is among those evicted by that enforcement, and every other
\* result is returned as add_transaction gave it.
C13_BatchResults ==
    [][BatchAdd(last')
          => OneResultEach(last'.args, AddEach(NoneAdded(pool), last'.args),
                           last', pool')]_vars

\* a batch of four returned an Ok, a DiscardedOnInsert and a validator error
C13_Witness ==
    /\ last.op = "add_transactions"
    /\ Len(last.args) = 4
    /\ \E i, j, k \in 1..4 :
          /\ last.results[i] = "Ok"
          /\ last.results[j] = "DiscardedOnInsert"
          /\ last.results[k] = "invalid_a"
    /\ last.discarded # {}

\* C14: with two threads in add_transactions, a transaction that a call
\* inserted and that a size enforcement of any thread evicted before the call
\* returned is reported to that call as DiscardedOnInsert; no call returns
\* Ok for a transaction that is already evicted when it returns.
C14_EvictedReported ==
    [][\A th \in Threads :
          (threads[th].pc = "enforce" /\ threads'[th].pc = "idle")
             => \A i \in 1..Len(threads[th].os) :
                   (/\ threads[th].added.results[i] = "Ok"
                    /\ threads[th].os[i].tx \in threads[th].evicted \cup last'.discarded)
                      => last'.results[i] = "DiscardedOnInsert"]_vars

\* C15: no len() observes a state between an insert and the eviction it
\* triggers: the count it returns is never above max_count.
C15_LenWithinLimit ==
    last.op = "len" => last.results[1] <= max_count

\* listener l of the list ls got exactly the messages msgs, in some order,
\* appended to its channel in the list ls2 after the call
GotEach(l, ls2, msgs) ==
    \E j \in 1..Len(ls2) :
        /\ ls2[j].id = l.id
        /\ Len(ls2[j].queue) = Len(l.queue) + Cardinality(msgs)
        /\ SubSeq(ls2[j].queue, 1, Len(l.queue)) = l.queue
        /\ Range(ls2[j].queue) = Range(l.queue) \cup msgs

\* the channel of listener l is open and has room for n more messages
HasRoom(l, n, buffer) == l.open /\ Len(l.queue) + n <= Capacity(buffer)

\* C16: every transaction that moves into Pending, by its own insertion, by
\* the cascade of another insertion or by a base-fee update, is sent exactly
\* once to every registered pending listener (whose channel has room), and
\* no hash is sent for a transaction placed in BaseFee or Queued.
C16_PendingSentOnce ==
    [][ops' = ops + 1
          => \A i \in 1..Len(pending_transaction_listener) :
                HasRoom(pending_transaction_listener[i],
                        Cardinality(pool'.pending \ pool.pending),
                        PENDING_LISTENER_BUFFER_SIZE)
                   => GotEach(pending_transaction_listener[i],
                              pending_transaction_listener',
                              pool'.pending \ pool.pending)]_vars

\* the part of C16 that holds: the hash of an inserted transaction is sent to
\* the pending listeners exactly if the transaction was placed in Pending
C16_InsertedSentIffPending ==
    [][(SingleAdd(last') /\ last'.results[1] = "Ok")
          => /\ last'.ready = IF last'.subpools[1] = "Pending"
                              THEN <<last'.args[1].tx>> ELSE <<>>
             /\ \A i \in 1..Len(pending_transaction_listener) :
                   HasRoom(pending_transaction_listener[i], 1,
                           PENDING_LISTENER_BUFFER_SIZE)
                      => GotEach(pending_transaction_listener[i],
                                 pending_transaction_listener',
                                 Range(last'.ready))]_vars

\* C17: every record evicted by the size enforcement, of a direct
\* discard_worst or at the end of add_transactions, causes a Discarded event
\* for its hash on the per-hash event stream.
C17_DiscardedEvent ==
    [][(ops' = ops + 1 /\ last'.op \in {"add_transactions", "discard_worst"})
          => \A t \in last'.discarded :
                \E k \in 1..Len(last'.events) :
                    last'.events[k] = [hash |-> t, event |-> "Discarded"]]_vars

\* the NewTransactionEvent of the transaction the call l added
EventOf(l) == [transaction |-> l.args[1].tx, subpool |-> l.subpools[1]]

\* C18: for every transaction admitted by add_transactions (its insert
\* succeeded, also if the enforcement closing the call evicted it again) one
\* NewTransactionEvent, carrying the record and the tag of the sub-pool it
\* was placed in, is sent to each registered new-transaction listener (and
\* arrives where the channel has room); none is sent for a rejected one.
C18_NewTransactionEvent ==
    [][SingleAdd(last')
          => IF last'.subpools[1] \in SubPools
             THEN /\ \/ last'.args[1].tx \in SubPoolOf(pool', last'.subpools[1])
                     \/ last'.args[1].tx \in last'.discarded
                  /\ last'.results[1] \in {"Ok", "DiscardedOnInsert"}
                  /\ last'.new_txs = <<EventOf(last')>>
                  /\ \A i \in 1..Len(transaction_listener) :
                        HasRoom(transaction_listener[i], 1, TX_LISTENER_BUFFER_SIZE)
                           => \E j \in 1..Len(transaction_listener') :
                                 /\ transaction_listener'[j].id = transaction_listener[i].id
                                 /\ transaction_listener'[j].queue
                                       = Append(transaction_listener[i].queue,
                                                EventOf(last'))
             ELSE /\ last'.new_txs = <<>>
                  /\ UNCHANGED transaction_listener]_vars

\* a parked transaction was admitted and both new-transaction listeners hold
\* its event with the tag of the parked sub-pool
C18_Witness ==
    /\ last.op = "add_transactions"
    /\ last.results = <<"Ok">>
    /\ last.subpools[1] \in {"BaseFee", "Queued"}
    /\ Len(transaction_listener) = 2
    /\ \A i \in 1..2 : transaction_listener[i].queue = <<EventOf(last)>>

\* the list ls2 is the list ls after one message msg was sent: a listener
\* whose channel is closed is gone, one whose channel is full stays as it is,
\* every other has msg appended, and the order is kept
SentToEach(ls, ls2, msg, buffer) ==
    /\ \A i \in 1..Len(ls) :
          IF ~ ls[i].open
          THEN ls[i].id \notin IdsOf(ls2)
          ELSE \E j \in 1..Len(ls2) :
                  ls2[j] = IF Len(ls[i].queue) >= Capacity(buffer)
                           THEN ls[i]
                           ELSE [ls[i] EXCEPT !.queue = Append(@, msg)]
    /\ Len(ls2) = Cardinality({i \in 1..Len(ls) : ls[i].open})
    /\ \A j, k \in 1..Len(ls2) :
          j < k => \E a, b \in 1..Len(ls) :
                      a < b /\ ls[a].id = ls2[j].id /\ ls[b].id = ls2[k].id

\* C19: when a send to a pending or new-transaction listener fails because
\* the channel is full, the listener stays registered and only that event is
\* lost for it; a listener is removed only when its channel is closed; the
\* call completes whatever the channels' state, and the other listeners
\* receive the event.
C19_FullKeptClosedRemoved ==
    [][SingleAdd(last')
          => /\ IF last'.ready = <<>>
                THEN UNCHANGED pending_transaction_listener
                ELSE SentToEach(pending_transaction_listener,
                                pending_transaction_listener',
                                last'.ready[1], PENDING_LISTENER_BUFFER_SIZE)
             /\ IF last'.new_txs = <<>>
                THEN UNCHANGED transaction_listener
                ELSE SentToEach(transaction_listener, transaction_listener',
                                last'.new_txs[1], TX_LISTENER_BUFFER_SIZE)]_vars

\* a pending add was made while one pending listener's channel was full and
\* one new-transaction listener's channel was closed: the full one is still
\* registered with its older hash, the other pending listener holds the new
\* hash, and of the new-transaction listeners only the second is left, with
\* the event
C19_Witness ==
    /\ last.op = "add_transactions"
    /\ last.results = <<"Ok">>
    /\ last.subpools = <<"Pending">>
    /\ Len(pending_transaction_listener) = 2
    /\ pending_transaction_listener[1].open
    /\ Len(pending_transaction_listener[1].queue) = 1
    /\ pending_transaction_listener[1].queue[1] # last.args[1].tx
    /\ pending_transaction_listener[2].queue = <<last.args[1].tx>>
    /\ Len(transaction_listener) = 1
    /\ transaction_listener[1].id = 2
    /\ transaction_listener[1].queue = <<EventOf(last)>>

\* a set of records is over a limit
OverLimit(S) == Cardinality(S) > max_count \/ SumSize(S) > max_bytes

\* the place of a sub-pool in the eviction order
EvictionRank(p, t) ==
    IF t \in p.queued THEN 1 ELSE IF t \in p.basefee THEN 2 ELSE 3

\* the victims D taken from the pool p (before the enforcement), which left
\* the records R: none unless a limit was exceeded; a BaseFee victim only
\* after all of Queued, a Pending victim only after all of Queued and
\* BaseFee; within a sub-pool the lower priority first; and a limit was
\* still exceeded when the last victim (one that no other follows in this
\* order) was taken
WorstFirst(p, D, R) ==
    /\ D # {} => OverLimit(p.all)
    /\ R = p.all \ D
    /\ \A t \in D :
          /\ t \in p.basefee => p.queued \subseteq D
          /\ t \in p.pending => (p.queued \cup p.basefee) \subseteq D
          /\ \A u \in R :
                EvictionRank(p, u) = EvictionRank(p, t) => Priority(u) >= Priority(t)
    /\ D # {} =>
          \E t \in D :
              /\ \A u \in D :
                    \/ EvictionRank(p, u) < EvictionRank(p, t)
                    \/ /\ EvictionRank(p, u) = EvictionRank(p, t)
                       /\ Priority(u) <= Priority(t)
              /\ OverLimit(R \cup {t})

\* the batch is four funded transactions of nonce 0 and cost 1 from four
\* senders, with priorities 10, 20, 30 and 40
FourPriorities(os) ==
    /\ Len(os) = 4
    /\ \A i \in 1..4 :
          os[i].kind = "Valid" /\ os[i].tx.nonce = 0 /\ os[i].tx.cost = 1
    /\ {Priority(os[i].tx) : i \in 1..4} = {10, 20, 30, 40}

\* the enforcement of the call that returned l, from its inserts mid to q
EnforcedWorstFirst(os, mid, l, q) ==
    /\ WorstFirst(mid.pool, l.discarded, q.all)
    /\ (\E i \in 1..Len(os) : mid.results[i] = "Ok") => ~ OverLimit(q.all)
    /\ (FourPriorities(os) /\ max_count = 3)
          => /\ Cardinality(q.all) = 3
             /\ {Priority(t) : t \in q.all} = {20, 30, 40}

\* C20: the size enforcement evicts only while a limit is exceeded and stops
\* as soon as both hold; it takes a victim from Pending only when Queued and
\* BaseFee are empty and from BaseFee only when Queued is empty, and within
\* a sub-pool the lowest priority; with max_count 3, four transactions of
\* priorities 10, 20, 30, 40 from four senders leave exactly 20, 30 and 40.
C20_WorstFirst ==
    [][BatchAdd(last')
          => EnforcedWorstFirst(last'.args, AddEach(NoneAdded(pool), last'.args),
                                last', pool')]_vars

\* the four transactions were inserted in the order 10, 20, 30, 40; the first
\* came back DiscardedOnInsert and the pool holds the other three
C20_Witness ==
    /\ last.op = "add_transactions"
    /\ FourPriorities(last.args)
    /\ \A i \in 1..4 : Priority(last.args[i].tx) = 10 * i
    /\ last.results = <<"DiscardedOnInsert", "Ok", "Ok", "Ok">>
    /\ pool.all = {last.args[i].tx : i \in 2..4}
    /\ pool.pending = pool.all

(***************************************************************************)
(* The best-transactions iterator.                                         *)
(***************************************************************************)
\* the records of the snapshot that may be yielded after the first n yields:
\* not yet yielded, and the lowest snapshot nonce of their sender or with
\* their same-sender predecessor among the yielded
EligibleAfter(b, n) ==
    {t \in b.snapshot \ {b.yielded[j] : j \in 1..n} :
        \A u \in Predecessors(b, t) : \E j \in 1..n : b.yielded[j] = u}

\* with no mark_invalid: every yield is a snapshot record not yielded before
\* and of the highest priority among the eligible, and the iterator has not
\* ended before every snapshot record was yielded
BestFirst(b) ==
    b.invalid = {} =>
        /\ \A i \in 1..Len(b.yielded) :
              /\ b.yielded[i] \in EligibleAfter(b, i - 1)
              /\ \A u \in EligibleAfter(b, i - 1) : Priority(b.yielded[i]) >= Priority(u)
        /\ BestEligible(b) = {} => Range(b.yielded) = b.snapshot
        /\ Len(b.yielded) <= Cardinality(b.snapshot)

S5 == [sender |-> 1, nonce |-> 5, fee_cap |-> 10, cost |-> 1]
S6 == [sender |-> 1, nonce |-> 6, fee_cap |-> 100, cost |-> 1]
T2 == [sender |-> 2, nonce |-> 2, fee_cap |-> 50, cost |-> 1]

\* the iterator over the scenario's snapshot has yielded all three
ScenarioDone(b) ==
    /\ b.active
    /\ b.invalid = {}
    /\ b.snapshot = {S5, S6, T2}
    /\ Len(b.yielded) = 3

Yielded(b, c) == c.yielded[Len(c.yielded)]

\* a next() of the iterator yields no record of a marked sender above the mark
NoHigherNonceAfterMark(b, c) ==
    Len(c.yielded) = Len(b.yielded) + 1 =>
        \A i \in b.invalid :
            ~ (Yielded(b, c).sender = i.sender /\ Yielded(b, c).nonce > i.nonce)

\* an ended iterator has yielded every record of the senders without a mark
OthersStillYielded(b) ==
    (b.active /\ BestEligible(b) = {}) =>
        \A t \in b.snapshot :
            (\A i \in b.invalid : i.sender # t.sender) => t \in Range(b.yielded)

\* C22: after mark_invalid on a transaction of sender S the iterator yields
\* no further transaction of S with a higher nonce and still yields every
\* transaction of every other sender; the call leaves the pool and the other
\* iterator as they were, and the other iterator yields its whole snapshot.
C22_MarkInvalid ==
    [][/\ NoHigherNonceAfterMark(best, best')
       /\ OthersStillYielded(best')
       /\ best'.invalid # best.invalid => (pool' = pool /\ other' = other)
       /\ other'.invalid = {}
       /\ OthersStillYielded(other')]_vars

T3 == [sender |-> 2, nonce |-> 3, fee_cap |-> 20, cost |-> 1]

\* T/2 was marked after it was yielded: the iterator went on to the other
\* sender's S/5 and ended without T/3, which the other iterator yielded
C22_Witness ==
    /\ best.invalid = {T2}
    /\ best.yielded = <<T2, S5>>
    /\ T3 \in best.snapshot
    /\ BestEligible(best) = {}
    /\ T3 \in Range(other.yielded)
    /\ T3 \in pool.pending

\* the order in which a snapshot is yielded, from the snapshot alone: the
\* highest priority among the records whose lower nonces of the same sender
\* were yielded, again and again
RECURSIVE SnapshotOrder(_, _)
SnapshotOrder(S, yielded) ==
    LET E == {t \in S \ Range(yielded) :
                \A u \in OfSender(S, t.sender) :
                    u.nonce < t.nonce => u \in Range(yielded)}
    IN IF E = {} THEN yielded ELSE SnapshotOrder(S, Append(yielded, Best(E)))

IsPrefix(s, t) == Len(s) <= Len(t) /\ \A i \in 1..Len(s) : s[i] = t[i]

\* the nonces of every sender in the set are consecutive
GapFree(S) ==
    \A t \in S, u \in S :
        t.sender = u.sender =>
            \A n \in t.nonce..u.nonce : \E v \in OfSender(S, t.sender) : v.nonce = n

\* the output so far is the start of the snapshot's order, and all of it once
\* the iterator has ended
OutputOfSnapshot(b) ==
    /\ Range(b.yielded) \subseteq b.snapshot
    /\ IsPrefix(b.yielded, SnapshotOrder(b.snapshot, <<>>))
    /\ (b.active /\ BestEligible(b) = {} /\ GapFree(b.snapshot)) =>
           b.yielded = SnapshotOrder(b.snapshot, <<>>)

\* C23: the iterator yields only transactions that were in Pending when it
\* was created, in the order its snapshot determines; the calls that change
\* the pool while it runs leave the iterator as it was, so they neither add
\* to, remove from, nor reorder its output.
C23_SnapshotOnly ==
    [][/\ (~ best.active /\ best'.active) => best'.snapshot = pool.pending
       /\ best.active => best'.snapshot = best.snapshot
       /\ ops' = ops + 1 => best' = best
       /\ OutputOfSnapshot(best')]_vars

\* the iterator yielded a record that was removed from the pool after the
\* snapshot, while Pending holds a record inserted after the snapshot
C23_Witness ==
    /\ best.active
    /\ \E t \in Range(best.yielded) : t \notin pool.all
    /\ \E u \in pool.pending : u \notin best.snapshot
    /\ BestEligible(best) = {}

\* the three sub-pools of a pool
SubPoolsOf(p) == <<p.pending, p.basefee, p.queued>>

\* the step is add_transactions of one Valid outcome that the pool accepted
AcceptedAdd(l) ==
    /\ SingleAdd(l)
    /\ l.args[1].kind = "Valid"
    /\ l.results[1] = "Ok"

\* the pool after on_canonical_state_change with only t mined: the base fee
\* stays and no sender state is updated
MinedAlone(p, t) == TxPoolOnCanonicalStateChange(p, {t}, p.base_fee, <<>>).pool

\* C24 as stated: inserting an accepted transaction and then reporting it
\* mined, with nothing else changed, leaves the three sub-pools as they were
\* before the insert.
C24_Original ==
    [][AcceptedAdd(last') =>
          SubPoolsOf(MinedAlone(pool', last'.args[1].tx)) = SubPoolsOf(pool)]_vars

\* the accepted insert replaced no record, evicted none, and its outcome
\* carried the sender state the pool already had
PlainAdd(l, p, q) ==
    /\ AcceptedAdd(l)
    /\ l.replaced = {}
    /\ l.discarded = {}
    /\ q.sender_state = p.sender_state

\* C24: inserting an accepted transaction that replaces no record, evicts
\* none and brings no new sender state, and then reporting it mined with
\* nothing else changed, leaves the three sub-pools as before the insert.
C24_InsertThenMined ==
    [][PlainAdd(last', pool, pool') =>
          SubPoolsOf(MinedAlone(pool', last'.args[1].tx)) = SubPoolsOf(pool)]_vars

\* the last call was add_transactions of one Valid outcome, accepted
WasAccepted(l) ==
    /\ l.op = "add_transactions"
    /\ Len(l.args) = 1
    /\ l.args[1].kind = "Valid"
    /\ l.results[1] = "Ok"

\* C25: inserting the byte-identical transaction a second time returns
\* AlreadyKnown, and the pool after the second call is the pool after the
\* first: one record of it, in the same sub-pool, with the same len() and
\* status().
C25_SecondAlreadyKnown ==
    [][(WasAccepted(last) /\ SingleAdd(last') /\ last'.args = last.args) =>
          /\ last'.results = <<"AlreadyKnown">>
          /\ pool' = pool
          /\ Cardinality({t \in Held(pool') : t = last.args[1].tx}) = 1
          /\ \A sub \in SubPools :
                last.args[1].tx \in SubPoolOf(pool', sub)
                    <=> last.args[1].tx \in SubPoolOf(pool, sub)
          /\ TxPoolLen(pool') = TxPoolLen(pool)
          /\ TxPoolStatus(pool') = TxPoolStatus(pool)]_vars

\* the second of two identical inserts returned AlreadyKnown and the pool
\* holds the one record of the first
C25_Witness ==
    /\ ops = 2
    /\ SingleValidAdd(last)
    /\ last.results = <<"AlreadyKnown">>
    /\ Held(pool) = {last.args[1].tx}
    /\ TxPoolLen(pool) = 1

\* the step is update_base_fee raising the base fee
Raised(l, p, q) ==
    /\ ops' = ops + 1
    /\ l.op = "update_base_fee"
    /\ q.base_fee > p.base_fee

\* C26: raising the base fee and lowering it back to the same value, with
\* no sender state changed and nothing evicted in between, yields exactly
\* the Pending and BaseFee sets from before the raise.
C26_RaiseThenLower ==
    [][Raised(last', pool, pool') =>
          /\ TxPoolUpdateBaseFee(pool', pool.base_fee).pending = pool.pending
          /\ TxPoolUpdateBaseFee(pool', pool.base_fee).basefee = pool.basefee]_vars

\* no held record has a nonce below its sender's stored state nonce
NoStale(p) ==
    \A t \in Held(p) \cup p.all : t.nonce >= p.sender_state[t.sender].state_nonce

\* the step is on_canonical_state_change
Canonical(l) == ops' = ops + 1 /\ l.op = "on_canonical_state_change"

\* after on_canonical_state_change no sub-pool holds a mined record
C27_NoMinedLeft ==
    [][Canonical(last') => last'.args[1] \cap (Held(pool') \cup pool'.all) = {}]_vars

\* C27: after on_canonical_state_change no sub-pool holds a record whose
\* hash was in mined_tx_hashes, and no held record has a nonce below its
\* sender's stored state nonce; the latter in every reachable state.
C27_NoMinedNoStale ==
    [][/\ Canonical(last') => last'.args[1] \cap (Held(pool') \cup pool'.all) = {}
       /\ NoStale(pool')]_vars

\* the step is remove_transactions
Removal(l) == ops' = ops + 1 /\ l.op = "remove_transactions"

\* C28: remove_transactions(hashes) removes exactly the held records whose
\* hash is listed and ignores the other hashes; every other record stays in
\* its sub-pool, none is promoted or demoted, and the base fee and the
\* stored sender state are unchanged.
C28_RemoveFrame ==
    [][Removal(last') =>
          /\ pool'.all = pool.all \ last'.args[1]
          /\ \A sub \in SubPools :
                SubPoolOf(pool', sub) = SubPoolOf(pool, sub) \ last'.args[1]
          /\ pool'.base_fee = pool.base_fee
          /\ pool'.sender_state = pool.sender_state]_vars

\* after two inserts a removal listed the sender's nonce-0 record and a
\* record the pool never held: the nonce-1 record is still in Pending
C28_Witness ==
    /\ ops = 3
    /\ last.op = "remove_transactions"
    /\ \E t \in last.args[1] : t.sender = 1 /\ t.nonce = 0
    /\ \E t \in last.args[1] : t.sender = 2
    /\ \E u \in pool.pending : u.sender = 1 /\ u.nonce = 1
    /\ Cardinality(pool.all) = 1

\* the sum of the three counts of a status
Total(st) == st.pending + st.basefee + st.queued

\* C29: the counts status() returns are the sizes of Pending, BaseFee and
\* Queued, their sum is what len() returns, and len() is 0 exactly when
\* is_empty() is true.
C29_StatusLenIsEmpty ==
    /\ last.op = "status" =>
          /\ last.results[1].pending = Cardinality(pool.pending)
          /\ last.results[1].basefee = Cardinality(pool.basefee)
          /\ last.results[1].queued = Cardinality(pool.queued)
          /\ Total(last.results[1]) = TxPoolLen(pool)
    /\ last.op = "len" =>
          /\ last.results[1] = Total(TxPoolStatus(pool))
          /\ last.results[1] = 0 <=> TxPoolIsEmpty(pool)
    /\ last.op = "is_empty" => (last.results[1] <=> TxPoolLen(pool) = 0)

\* len() returned 2 for a pool with one BaseFee and one Queued record
C29_Witness ==
    /\ last.op = "len"
    /\ last.results[1] = 2
    /\ TxPoolStatus(pool) = [pending |-> 0, basefee |-> 1, queued |-> 1]
    /\ ~ TxPoolIsEmpty(pool)

\* the step is a get_sender_id call
Interning(l) == ops' = ops + 1 /\ l.op = "get_sender_id"

\* no two ids of the table have the same address
OneIdEach(ids) ==
    \A i \in 1..Len(ids), j \in 1..Len(ids) : ids[i] = ids[j] => i = j

\* C30: whatever the order of the callers, get_sender_id returns the id the
\* address already has, different addresses have different ids, an assigned
\* id keeps its address for ever, also when the insert that assigned it was
\* rejected, and address_of(id_or_create(a)) = a.
C30_SenderIds ==
    [][/\ OneIdEach(identifiers')
       /\ Len(identifiers') >= Len(identifiers)
       /\ \A i \in 1..Len(identifiers) :
             AddressOf(identifiers', i) = AddressOf(identifiers, i)
       /\ Interning(last') =>
             /\ AddressOf(identifiers', last'.results[1]) = last'.args[2]
             /\ \A i \in 1..Len(identifiers) :
                   AddressOf(identifiers, i) = last'.args[2] => last'.results[1] = i
       /\ (SingleAdd(last') /\ last'.args[1].kind = "Valid") =>
             \E i \in 1..Len(identifiers') :
                 AddressOf(identifiers', i) = last'.args[1].tx.sender]_vars

\* three calls and two ids: the second thread asked for address 3 again and
\* got id 1, after address 1 had got id 2
C30_Witness ==
    /\ ops = 3
    /\ identifiers = <<3, 1>>
    /\ last.op = "get_sender_id"
    /\ last.args = <<2, 3>>
    /\ last.results = <<1>>

\* C31: no public operation of the pool panics, whatever its input and the
\* state of the pool; resubmit included.
C31_NoPanic ==
    \A i \in 1..Len(last.results) : last.results[i] # "panic"

\* the block numbers of the entries of the four header tables
HeaderEntryNumbers(tables) ==
    {tables.HeaderNumbers[h] : h \in DOMAIN tables.HeaderNumbers}
        \cup DOMAIN tables.CanonicalHeaders
        \cup {k[1] : k \in DOMAIN tables.Headers}
        \cup {k[1] : k \in DOMAIN tables.HeaderTD}

NoHeaderEntryAbove(tables, block) ==
    \A n \in HeaderEntryNumbers(tables) : n <= block

\* C32: when execute called the downloader and the download timed out, it
\* returns Ok with done = false, reached_tip = false and the stage progress
\* it was given, and no header table holds an entry above that progress
C32_Timeout ==
    (ret.op = "execute" /\ ret.download = "Timeout") =>
        /\ ret.output = ExecOutput(ret.input, FALSE, FALSE)
        /\ NoHeaderEntryAbove(db, ret.input)

C32_Witness ==
    /\ ret.op = "execute" /\ ret.download = "Timeout"
    /\ ret.input = 2
    /\ 2 \in DOMAIN db.CanonicalHeaders
    /\ C32_Timeout
\* C33: when the download fails with DownloadError::HeaderValidation, execute
\* returns Err(StageError::Validation) whose block is the input progress;
\* when it fails with any other error but a timeout, execute returns
\* Err(StageError::Download); in both cases no header table holds an entry
\* above the input progress
C33_DownloadErrors ==
    /\ (ret.op = "execute" /\ ret.download = "HeaderValidation") =>
           /\ ret.output.kind = "Validation"
           /\ ret.output.block = ret.input
           /\ NoHeaderEntryAbove(db, ret.input)
    /\ (ret.op = "execute" /\ ret.download \in DownloadKinds \ {"Ok", "Timeout", "HeaderValidation"}) =>
           /\ ret.output.kind = "Download"
           /\ NoHeaderEntryAbove(db, ret.input)

C33_Witness ==
    /\ ret.op = "execute" /\ ret.download = "HeaderValidation"
    /\ ret.output = StageError("Validation", 3)
    /\ 3 \in DOMAIN db.CanonicalHeaders
\* the block numbers at which a step changed an entry of a header table
WrittenNumbers ==
    {db'.HeaderNumbers[h] : h \in {x \in DOMAIN db'.HeaderNumbers :
        x \notin DOMAIN db.HeaderNumbers \/ db.HeaderNumbers[x] # db'.HeaderNumbers[x]}}
    \cup {n \in DOMAIN db'.CanonicalHeaders :
        n \notin DOMAIN db.CanonicalHeaders \/ db.CanonicalHeaders[n] # db'.CanonicalHeaders[n]}
    \cup {k[1] : k \in {x \in DOMAIN db'.Headers :
        x \notin DOMAIN db.Headers \/ db.Headers[x] # db'.Headers[x]}}
    \cup {k[1] : k \in {x \in DOMAIN db'.HeaderTD :
        x \notin DOMAIN db.HeaderTD \/ db.HeaderTD[x] # db'.HeaderTD[x]}}

\* the four tables agree on block `number`
HeaderEntriesAgree(tables, number) ==
    /\ number \in DOMAIN tables.CanonicalHeaders
    /\ LET hash == tables.CanonicalHeaders[number]
           key == <<number, hash>>
       IN  /\ hash \in DOMAIN tables.HeaderNumbers
           /\ tables.HeaderNumbers[hash] = number
           /\ key \in DOMAIN tables.Headers
           /\ Seal(tables.Headers[key]).hash = hash
           /\ key \in DOMAIN tables.HeaderTD
           /\ LET parent == <<number - 1, tables.Headers[key].parent_hash>> IN
              /\ parent \in DOMAIN tables.HeaderTD
              /\ tables.HeaderTD[key] =
                     tables.HeaderTD[parent] + tables.Headers[key].difficulty

ExecuteAdvanced ==
    /\ ret'.op = "execute"
    /\ ret'.output.kind = "Ok"
    /\ ret'.output.stage_progress > ret'.input

\* C34: when execute returns Ok with a stage progress above its input, it
\* reports done = true and the block number of the tip, and for every block
\* number it wrote HeaderNumbers[hash] = number, CanonicalHeaders[number] =
\* hash, Headers[(number, hash)] is the header with that hash, and
\* HeaderTD[(number, hash)] = HeaderTD[(number - 1, parent_hash)] + difficulty
C34_Written ==
    [][(ret' # ret /\ ExecuteAdvanced) =>
          /\ ret'.output.done
          /\ ret'.forkchoice \in DOMAIN db'.HeaderNumbers
          /\ ret'.output.stage_progress = db'.HeaderNumbers[ret'.forkchoice]
          /\ WrittenNumbers = (ret'.input + 1)..ret'.output.stage_progress
          /\ \A n \in WrittenNumbers : HeaderEntriesAgree(db', n)]_vars

C34_Witness ==
    /\ ret.op = "execute" /\ ret.output = ExecOutput(3, TRUE, TRUE)
    /\ ret.input = 1
    /\ ret.forkchoice = A3.hash
    /\ db.HeaderTD[<<3, A3.hash>>] = 5
\* the entries of the four tables for the blocks up to `block`
EntriesUpTo(tables, block) ==
    [HeaderNumbers    |-> {<<h, tables.HeaderNumbers[h]>> :
                              h \in {x \in DOMAIN tables.HeaderNumbers :
                                         tables.HeaderNumbers[x] <= block}},
     CanonicalHeaders |-> {<<n, tables.CanonicalHeaders[n]>> :
                              n \in {x \in DOMAIN tables.CanonicalHeaders : x <= block}},
     Headers          |-> {<<k, tables.Headers[k]>> :
                              k \in {x \in DOMAIN tables.Headers : x[1] <= block}},
     HeaderTD         |-> {<<k, tables.HeaderTD[k]>> :
                              k \in {x \in DOMAIN tables.HeaderTD : x[1] <= block}}]

\* C35: after unwind with unwind_to = u returns, no header table holds an
\* entry for a block above u, the entries for the blocks up to u are the ones
\* from before the call, and the returned stage progress is u; whatever
\* executes and unwinds came before
C35_Unwind ==
    [][ret'.op = "unwind" =>
          /\ NoHeaderEntryAbove(db', ret'.input)
          /\ EntriesUpTo(db', ret'.input) = EntriesUpTo(db, ret'.input)
          /\ ret'.output.kind = "Ok"
          /\ ret'.output.stage_progress = ret'.input]_vars

C35_Witness ==
    /\ ret.op = "unwind" /\ ret.input = 1
    /\ DOMAIN db.CanonicalHeaders = {0, 1}
    /\ db.CanonicalHeaders[1] = B1.hash
    /\ DOMAIN db.HeaderNumbers = {Genesis.hash, B1.hash}
\* C36: is_likely_bad_headers_response is true for every Err; for Ok(headers)
\* it is true when there is at most one header and the limit of the request
\* differs from the number of headers, or when the request starts at a block
\* number and the first header has another number; otherwise it is false
C36_LikelyBad ==
    (arg.fn = "is_likely_bad_headers_response" /\ out.called) =>
        out.value =
            \/ arg.result.kind = "Err"
            \/ /\ arg.result.kind = "Ok"
               /\ \/ /\ Len(arg.result.headers) <= 1
                     /\ arg.request.limit # Len(arg.result.headers)
                  \/ /\ arg.request.start.kind = "Number"
                     /\ arg.result.headers # <<>>
                     /\ arg.result.headers[1].number # arg.request.start.value

\* an empty response to a request of limit 1 is bad
C36_Witness ==
    /\ arg.fn = "is_likely_bad_headers_response" /\ out.called
    /\ arg.result = [kind |-> "Ok", headers |-> <<>>]
    /\ arg.request.limit = 1
    /\ out.value = TRUE

\* an empty response to a request of limit 0 is not bad
C36_WitnessLimitZero ==
    /\ arg.fn = "is_likely_bad_headers_response" /\ out.called
    /\ arg.result = [kind |-> "Ok", headers |-> <<>>]
    /\ arg.request.limit = 0
    /\ out.value = FALSE
\* the cascade of sender s run once more on pool p, with nothing changed
\* since the last run
CascadeAgain(p, s) == Cascade(p, s, p.sender_state[s], p.base_fee)

\* C37: after every mutating operation the cascade is at its fixed point:
\* run again for any sender, it moves no record to another sub-pool
C37_FixedPoint ==
    \A s \in SenderIds :
        \A sub \in SubPools :
            SubPoolOf(CascadeAgain(pool, s), sub) = SubPoolOf(pool, sub)
\* on update_base_fee, which runs the cascade of every sender, the cascades
\* of two senders give the same pool in either order, and so does every
\* order of all of them
CascadesCommute ==
    [][(ops' = ops + 1 /\ last'.op = "update_base_fee") =>
          LET pre == [pool EXCEPT !.base_fee = pool'.base_fee]
              run(p, s) == Cascade(p, s, pool.sender_state[s], pool.base_fee)
          IN  \A a, b \in SenderIds : run(run(pre, a), b) = run(run(pre, b), a)]_vars
\* header is the child of parent: the parent hash matches and the number is
\* the parent's plus one
IsChildOf(header, parent) ==
    /\ header.parent_hash = parent.hash
    /\ header.number = parent.number + 1

\* the header the tables hold at the stage progress
LocalHead(tables, stage_progress) ==
    LET hash == tables.CanonicalHeaders[stage_progress]
    IN  SealedHeaderNew(tables.Headers[<<stage_progress, hash>>], hash)

\* what C38 asks of an accepted response
WellFormedResponse(headers, head, forkchoice) ==
    /\ Len(headers) >= 2
    /\ headers[Len(headers)].hash = forkchoice
    /\ \A i \in 2..Len(headers) : IsChildOf(headers[i], headers[i - 1])
    /\ IsChildOf(headers[1], head)

C38_WitnessAccepted ==
    /\ arg.fn = "execute" /\ ret.op = "execute" /\ ret.download = "Ok"
    /\ arg.headers = <<A2, A3>>
    /\ arg.stage_progress = 1
    /\ ret.output = ExecOutput(3, TRUE, TRUE)
\* C39: when header is the child of parent and consensus validation of it
\* fails, validate_header_download returns HeaderValidation with the hash of
\* header, the header that failed, not of its parent; when header is not the
\* child of parent, the parent mismatch is returned and consensus validation
\* is not called
C39_FailingHeaderHash ==
    (arg.fn = "validate_header_download" /\ out.called) =>
        /\ (IsChildOf(arg.header, arg.parent) /\ arg.consensus # "Ok") =>
               /\ out.value.result = "HeaderValidation"
               /\ out.value.hash = arg.header.hash
        /\ ~IsChildOf(arg.header, arg.parent) =>
               /\ out.value.result = "MismatchedHeaders"
               /\ ~out.value.consensus_called
\* the block gas left before transaction j of the body, by the receipts
GasLeftBefore(j) ==
    arg.gas_limit - (IF j = 1 THEN 0 ELSE out.receipts[j - 1])

\* C40: with every transaction using at most its gas limit,
\* cumulative_gas_used never exceeds the gas limit of the block, so
\* gas_limit - cumulative_gas_used never underflows; a transaction whose gas
\* limit exceeds the block gas left is never handed to transact, the call
\* aborts with TransactionGasLimitMoreThanAvailableBlockGas instead; and the
\* cumulative_gas_used of the receipts never decreases, the last being the
\* returned total
C40_BlockGas ==
    (arg.fn = "execute_transactions" /\ out.called) =>
        /\ out.cumulative_gas_used <= arg.gas_limit
        /\ ~out.underflow
        /\ \A j \in 1..out.transacted : arg.body[j] <= GasLeftBefore(j)
        /\ (out.result \notin {"running", "SenderRecoveryError"} /\ out.i <= Len(arg.body)
               /\ arg.body[out.i] > GasLeftBefore(out.i)) =>
               /\ out.result = "TransactionGasLimitMoreThanAvailableBlockGas"
               /\ out.transacted = out.i - 1
        /\ \A j \in 2..Len(out.receipts) : out.receipts[j - 1] <= out.receipts[j]
        /\ (out.result = "Ok" /\ out.receipts # <<>>) =>
               out.receipts[Len(out.receipts)] = out.total

\* three transactions that fill the block exactly
C40_Witness ==
    /\ arg.fn = "execute_transactions" /\ out.called
    /\ arg.gas_limit = 3
    /\ arg.body = <<1, 1, 1>>
    /\ out.result = "Ok"
    /\ out.receipts = <<1, 2, 3>>
    /\ out.total = 3

\* a call that aborts at its second transaction
C40_WitnessAbort ==
    /\ arg.fn = "execute_transactions" /\ out.called
    /\ arg.gas_limit = 3
    /\ arg.body = <<2, 2>>
    /\ out.receipts = <<2>>
    /\ out.result = "TransactionGasLimitMoreThanAvailableBlockGas"
====
